---- MODULE Spec2Model ----
(***************************************************************************)
(* Memory store of the coaching agent (memory-storage.ts): one JSONL file  *)
(* per user under data/memories, appended to by saveMemory and rewritten   *)
(* as a whole by updateMemoryAccess, expireMemory, deleteMemory and        *)
(* cleanupOldMemories.                                                     *)
(*                                                                         *)
(* Spec      one server process: every exported function runs to           *)
(*           completion (all file calls are synchronous).                  *)
(* SpecRace  a second process works on the same data directory: between    *)
(*           the load and the rewrite of one of its calls (inflight) the   *)
(*           calls of the first process run to completion.  Loads change   *)
(*           nothing, so every interleaving of two calls is one of these.  *)
(* SpecSearch  searchMemories on a stored file of up to MaxStored records. *)
(* SpecFile    the calls on a file that also holds malformed lines.        *)
(* SpecCodec   one record through JSON.stringify and the parse of          *)
(*             loadMemories.                                               *)
(* SpecClassify  the save decision (memory-analyzer.ts) on one message:    *)
(*             analyzeSaveDecision and analyzeSaveDecisionWithLLM.         *)
(* SpecRetrieve  analyzeRetrievalDecision on a stored file of up to        *)
(*             MaxKept records.                                            *)
(* SpecRetrieveDue  the same on up to MaxDue commitments and milestones.   *)
(* SpecHybridCall  analyzeSaveDecisionWithLLM on one message as a call     *)
(*             that waits for generateText and is resumed fairly.          *)
(* SpecThinking  two requests of POST /agent/ask on the one thinking-log   *)
(*             store (thinking-log.ts); a request is suspended at its      *)
(*             awaits, where the steps of the other one run.               *)
(*                                                                         *)
(* Dates are clock ticks (Nat); an optional field is the empty set when    *)
(* undefined and a singleton when set; relevance is in tenths.             *)
(***************************************************************************)
EXTENDS Integers, Sequences, FiniteSets, TLC

\* ---------------------------------------------------------------- bounds
MaxIds == 2
MaxTime == 1
MaxAccessed == 3
MaxRaceIds == 2
MaxRaceAccessed == 2
MaxStored == 3
MaxLines == 3
MaxWords == 3
MaxKept == 4
MaxDue == 6
MaxToolSteps == 2

\* ------------------------------------------------------- program constants
HighRelevance == 7
FrequentAccess == 3
DefaultDaysOld == 30

\* 24 * 60 * 60 * 1000 ms: where the half of a day matters (the content a
\* save builds, the retrieval decision) a day is DayTicks clock ticks
DayTicks == 2

MemoryType ==
  {"learning_progress", "learning_challenge", "commitment", "emotional_state",
   "milestone", "preference", "custom"}

\* ------------------------------------------------------------------ inputs
\* A userId is a string; it is kept as its list of "/"-separated segments.
UserIds == { <<"u1">>, <<"u2">>, <<".", "u1">> }
\* the userIds the rewriting calls are made with: one for each file
OpUserIds == { <<"u1">>, <<"u2">> }
DaysOldArgs == {0, 1}
Ids == 1..MaxIds

tagsOf(type) == IF type = "milestone" THEN <<"milestone", "high">> ELSE <<type>>

memoryInput(u, t, r, e) ==
  [userId |-> u, sessionId |-> "default", type |-> t, content |-> "c",
   relevance |-> r, tags |-> tagsOf(t), expired |-> FALSE,
   lastAccessed |-> {}, expiresAt |-> e]

\* What saveMemory is handed: one record for each keep-condition of the cleanup
\* (one of them with a deadline, one under a second spelling of u1's id) and
\* one record of another user.
MemoryInputs ==
  { memoryInput(<<"u1">>, "commitment", 5, {}),
    memoryInput(<<".", "u1">>, "commitment", 7, {}),
    memoryInput(<<"u1">>, "milestone", 5, {0}),
    memoryInput(<<"u2">>, "commitment", 5, {}) }

\* --------------------------------------------------------------- variables
VARIABLES files, present, now, nextId, assigned, touches, last, inflight

vars == <<files, present, now, nextId, assigned, touches, last, inflight>>

\* ------------------------------------------------------------ path mapping
RECURSIVE normalize(_, _)
normalize(segs, acc) ==
  IF segs = <<>> THEN acc
  ELSE LET s == Head(segs) IN
       IF s = "." \/ s = "" THEN normalize(Tail(segs), acc)
       ELSE IF s = ".." /\ acc # <<>> /\ acc[Len(acc)] # ".."
            THEN normalize(Tail(segs), SubSeq(acc, 1, Len(acc) - 1))
            ELSE normalize(Tail(segs), Append(acc, s))

\* path.join(MEMORY_DIR, `${userId}.jsonl`), relative to MEMORY_DIR; the last
\* segment carries the ".jsonl" suffix and is therefore always a plain name.
getMemoryFilePath(userId) ==
  Append(normalize(SubSeq(userId, 1, Len(userId) - 1), <<>>), userId[Len(userId)])

Paths == { getMemoryFilePath(u) : u \in UserIds }

\* ------------------------------------------------------------ record codec
toISOString(d) == [iso |-> d]
newDate(s) == s.iso

\* A line of a file is the text of a record (stringify), a line that trim()
\* empties (Blank), text that JSON.parse rejects (Garbage), or the text "null",
\* which JSON.parse accepts and the Date restore throws on (JsonNull).
Blank == [blank |-> TRUE]
Garbage == [garbage |-> TRUE]
JsonNull == [json |-> "null"]

stringify(m) ==
  [f \in DOMAIN m |->
     IF f = "timestamp" THEN toISOString(m[f])
     ELSE IF f \in {"lastAccessed", "expiresAt"} THEN { toISOString(d) : d \in m[f] }
     ELSE m[f]]

isJson(line) == "id" \in DOMAIN line

\* Mutant of parseLine: lastAccessed is restored from the text of expiresAt.
parseLine_fromExpiresAt(line) ==
  [f \in DOMAIN line |->
     IF f = "timestamp" THEN newDate(line[f])
     ELSE IF f = "lastAccessed"
          THEN IF line[f] = {} THEN {} ELSE { newDate(e) : e \in line.expiresAt }
     ELSE IF f = "expiresAt" THEN { newDate(e) : e \in line[f] }
     ELSE line[f]]

parseLine(line) ==
  [f \in DOMAIN line |->
     IF f = "timestamp" THEN newDate(line[f])
     ELSE IF f \in {"lastAccessed", "expiresAt"} THEN { newDate(s) : s \in line[f] }
     ELSE line[f]]

\* memories.map(m => JSON.stringify(m)).join('\n') + '\n': one line for each
\* record, and a single empty line when there is no record
fileContent(memories) ==
  IF memories = <<>> THEN <<Blank>>
  ELSE [i \in 1..Len(memories) |-> stringify(memories[i])]

parseLines(lines) == [i \in 1..Len(lines) |-> parseLine(lines[i])]

\* ----------------------------------------------------------- pure helpers
IsNotBlank(line) == line # Blank

\* Mutant of loadFrom: one line that does not parse fails the whole load.
loadFrom_failOnMalformed(fs, ex, userId) ==
  LET p == getMemoryFilePath(userId) IN
  IF p \notin ex THEN <<>>
  ELSE IF \E i \in 1..Len(fs[p]) : IsNotBlank(fs[p][i]) /\ ~isJson(fs[p][i]) THEN <<>>
       ELSE parseLines(SelectSeq(fs[p], IsNotBlank))

loadFrom(fs, ex, userId) ==
  LET p == getMemoryFilePath(userId) IN
  IF p \notin ex THEN <<>>
  ELSE parseLines(SelectSeq(SelectSeq(fs[p], IsNotBlank), isJson))

loadMemories(userId) == loadFrom(files, present, userId)

\* the lines of a user's file that a load reports a parse error for
isMalformed(line) == IsNotBlank(line) /\ ~isJson(line)

parseErrors(userId) ==
  LET p == getMemoryFilePath(userId)
  IN IF p \notin present THEN 0 ELSE Len(SelectSeq(files[p], isMalformed))

\* Mutant of findIndex: an id that is not found counts as the first record.
findIndex_firstWhenAbsent(memories, memoryId) ==
  IF \E i \in 1..Len(memories) : memories[i].id = memoryId
  THEN CHOOSE i \in 1..Len(memories) :
         /\ memories[i].id = memoryId
         /\ \A j \in 1..(i - 1) : memories[j].id # memoryId
  ELSE IF Len(memories) > 0 THEN 1 ELSE -1

findIndex(memories, memoryId) ==
  IF \E i \in 1..Len(memories) : memories[i].id = memoryId
  THEN CHOOSE i \in 1..Len(memories) :
         /\ memories[i].id = memoryId
         /\ \A j \in 1..(i - 1) : memories[j].id # memoryId
  ELSE -1

\* Mutant of splice: memories.splice(i) without the count removes the tail.
splice_toEnd(memories, i) == SubSeq(memories, 1, i - 1)

splice(memories, i) == SubSeq(memories, 1, i - 1) \o SubSeq(memories, i + 1, Len(memories))

\* Mutants of accessUpdated: the counter is left as it was; the touched record
\* is moved to the end of the list.
accessUpdated_noCount(memories, i, t) ==
  [memories EXCEPT ![i] = [@ EXCEPT !.lastAccessed = {t}]]

accessUpdated_moveToEnd(memories, i, t) ==
  Append(SubSeq(memories, 1, i - 1) \o SubSeq(memories, i + 1, Len(memories)),
         [memories[i] EXCEPT !.accessed = @ + 1, !.lastAccessed = {t}])

\* Mutant of accessUpdated: the counter is read again from the file at the
\* time of the rewrite.
accessUpdated_readAgain(memories, i, t) ==
  LET fresh == loadMemories(memories[i].userId)
      k == findIndex(fresh, memories[i].id)
      count == IF k = -1 THEN memories[i].accessed ELSE fresh[k].accessed
  IN [memories EXCEPT ![i] = [@ EXCEPT !.accessed = count + 1, !.lastAccessed = {t}]]

accessUpdated(memories, i, t) ==
  [memories EXCEPT ![i] = [@ EXCEPT !.accessed = @ + 1, !.lastAccessed = {t}]]

\* Mutant of expireMarked: the deadline is taken off as well.
expireMarked_noDeadline(memories, i) ==
  [memories EXCEPT ![i] = [@ EXCEPT !.expired = TRUE, !.expiresAt = {}]]

expireMarked(memories, i) == [memories EXCEPT ![i] = [@ EXCEPT !.expired = TRUE]]

\* Mutants of keepOnCleanup: milestones are not exempt; relevance 0.7 itself
\* does not count as high.
keepOnCleanup_noMilestone(m, cutoffDate) ==
  \/ m.relevance >= HighRelevance
  \/ m.timestamp > cutoffDate
  \/ m.accessed >= FrequentAccess

keepOnCleanup_strictRelevance(m, cutoffDate) ==
  \/ m.relevance > HighRelevance
  \/ m.timestamp > cutoffDate
  \/ m.accessed >= FrequentAccess
  \/ m.type = "milestone"

keepOnCleanup(m, cutoffDate) ==
  \/ m.relevance >= HighRelevance
  \/ m.timestamp > cutoffDate
  \/ m.accessed >= FrequentAccess
  \/ m.type = "milestone"

memoriesToKeep(memories, cutoffDate) ==
  LET keep(m) == keepOnCleanup(m, cutoffDate) IN SelectSeq(memories, keep)

\* ------------------------------------------------------------------ search
SearchUserIds == { {}, {<<"u1">>}, {<<"u2">>} }
SearchTypes == { {}, {{"milestone"}}, {{"commitment", "custom"}} }
\* tags: omitted, given as the empty list, given with two tags
SearchTags == { {}, {<<>>}, {<<"high", "x">>} }
SearchDates == { {}, {1} }
SearchMinRelevance == { {}, {7} }
SearchLimits == { {}, {0}, {1} }

Criteria ==
  [userId : SearchUserIds, type : SearchTypes, tags : SearchTags,
   fromDate : SearchDates, toDate : SearchDates, minRelevance : SearchMinRelevance,
   notExpired : BOOLEAN, limit : SearchLimits]

\* The criteria the Search action is called with: each predicate alone.
NoCriteria(u) ==
  [userId |-> u, type |-> {}, tags |-> {}, fromDate |-> {}, toDate |-> {},
   minRelevance |-> {}, notExpired |-> FALSE, limit |-> {}]

CalledCriteria ==
  { NoCriteria({}),
    [NoCriteria({<<"u1">>}) EXCEPT !.notExpired = TRUE],
    [NoCriteria({<<"u1">>}) EXCEPT !.notExpired = TRUE, !.limit = {1}] }

RECURSIVE insertByRelevance(_, _)
insertByRelevance(m, sorted) ==
  IF sorted = <<>> THEN <<m>>
  ELSE IF Head(sorted).relevance < m.relevance THEN <<m>> \o sorted
       ELSE <<Head(sorted)>> \o insertByRelevance(m, Tail(sorted))

\* Mutant of sortByRelevance: the list is left in file order.
sortByRelevance_fileOrder(memories) == memories

\* memories.sort((a, b) => b.relevance - a.relevance): stable, descending
RECURSIVE sortByRelevance(_)
sortByRelevance(memories) ==
  IF memories = <<>> THEN <<>>
  ELSE insertByRelevance(memories[Len(memories)],
                         sortByRelevance(SubSeq(memories, 1, Len(memories) - 1)))

seqToSet(s) == { s[i] : i \in 1..Len(s) }

\* Mutant of notExpiredAt: only the flag is looked at.
notExpiredAt_flagOnly(m, t) == ~m.expired

notExpiredAt(m, t) ==
  /\ ~m.expired
  /\ ~(\E e \in m.expiresAt : e < t)

\* Mutant of searchFilter: a record must carry every given tag.
searchFilter_allTags(criteria, m, t) ==
  /\ \A types \in criteria.type : m.type \in types
  /\ \A tags \in criteria.tags :
        Len(tags) > 0 => seqToSet(tags) \subseteq seqToSet(m.tags)
  /\ \A d \in criteria.fromDate : m.timestamp >= d
  /\ \A d \in criteria.toDate : m.timestamp <= d
  /\ \A r \in criteria.minRelevance : m.relevance >= r
  /\ criteria.notExpired => notExpiredAt(m, t)

searchFilter(criteria, m, t) ==
  /\ \A types \in criteria.type : m.type \in types
  /\ \A tags \in criteria.tags :
        Len(tags) > 0 => seqToSet(tags) \cap seqToSet(m.tags) # {}
  /\ \A d \in criteria.fromDate : m.timestamp >= d
  /\ \A d \in criteria.toDate : m.timestamp <= d
  /\ \A r \in criteria.minRelevance : m.relevance >= r
  /\ criteria.notExpired => notExpiredAt(m, t)

searchThrows(criteria) == criteria.userId = {}

\* Mutant of searchReads: the collection is loaded before userId is looked at.
searchReads_beforeCheck(criteria) ==
  IF criteria.userId = {} THEN { <<"undefined">> }
  ELSE { getMemoryFilePath(u) : u \in criteria.userId }

\* the files a call of searchMemories opens: none when it throws
searchReads(criteria) ==
  IF searchThrows(criteria) THEN {}
  ELSE { getMemoryFilePath(u) : u \in criteria.userId }

searchIn(fs, ex, t, criteria) ==
  LET userId == CHOOSE u \in criteria.userId : TRUE
      pass(m) == searchFilter(criteria, m, t)
      sorted == sortByRelevance(SelectSeq(loadFrom(fs, ex, userId), pass))
  IN IF \E n \in criteria.limit : n # 0
     THEN LET n == CHOOSE k \in criteria.limit : TRUE
          IN SubSeq(sorted, 1, IF n < Len(sorted) THEN n ELSE Len(sorted))
     ELSE sorted

searchMemories(criteria) == searchIn(files, present, now, criteria)

\* -------------------------------------------------------------- statistics
\* a day is one tick in the store, as in cleanupOldMemories
RecentDays == 7

\* Mutant of countedExpired: only the flag is counted.
countedExpired_flagOnly(m, t) == m.expired

\* m.expired || (m.expiresAt && m.expiresAt < now)
countedExpired(m, t) == m.expired \/ \E e \in m.expiresAt : e < t

getMemoryStatsIn(fs, ex, t, userId) ==
  LET memories == loadFrom(fs, ex, userId)
      recentThreshold == t - RecentDays
      ofType(type) == LET isOfType(m) == m.type = type
                      IN Len(SelectSeq(memories, isOfType))
      isExpired(m) == countedExpired(m, t)
      isRecent(m) == \E d \in m.lastAccessed : d > recentThreshold
  IN [total |-> Len(memories),
      byType |-> [type \in { memories[i].type : i \in 1..Len(memories) } |-> ofType(type)],
      expired |-> Len(SelectSeq(memories, isExpired)),
      recentlyAccessed |-> Len(SelectSeq(memories, isRecent))]

getMemoryStats(userId) == getMemoryStatsIn(files, present, now, userId)

\* ------------------------------------- save decision (memory-analyzer.ts)
\* A message is the set of its words; keywords and words are written in Latin
\* letters.  patternsIn gives, for each word of the model, the keywords of all
\* the tables below that are substrings of it: text.includes(keyword) holds
\* when some word of the text has the keyword among them.
learningProgressKeywords ==
  {"oboeta", "rikaishita", "toreta", "ten", "sukoa", "goukaku",
   "dekiruyouninatta", "joutatsu", "koujou", "seichou"}

subjects ==
  << <<"vocabulary", {"tango", "goi", "bokyaburarii"}>>,
     <<"listening", {"risuningu", "kikitori", "hiaringu"}>>,
     <<"reading", {"dokkai", "riidingu", "choubun"}>>,
     <<"writing", {"raitingu", "sakubun", "essei"}>>,
     <<"grammar", {"bunpou", "guramaa"}>>,
     <<"speaking", {"supiikingu", "kaiwa", "hatsuon"}>> >>

learningChallengeKeywords ==
  {"muzukashii", "nigate", "wakaranai", "komat", "dekinai", "kadai",
   "mondai", "nayami", "tsurai", "taihen", "tensuuhikui", "tensuuwarui",
   "seiseki", "shippai"}

categories ==
  << <<"grammar", {"bunpou", "jisei", "kankeishi", "kateihou"}>>,
     <<"vocabulary", {"tango", "goi", "oboerarenai"}>>,
     <<"timeManagement", {"jikan", "maniawanai", "tarinai"}>>,
     <<"motivation", {"yaruki", "mochibeeshon", "tsuzukanai"}>>,
     <<"comprehension", {"rikai", "imi", "wakaranai"}>>,
     <<"pronunciation", {"hatsuon", "oto", "kikitorenai"}>>,
     <<"test_performance", {"tensuu", "sukoa", "tesuto", "shiken", "seiseki"}>> >>

commitmentKeywords ==
  {"shukudai", "kadai", "yakusoku", "madeni", "jikai", "renshuu",
   "mainichi", "shuu"}

frequency ==
  << <<"daily", {"mainichi", "hibi", "deirii"}>>,
     <<"weekly", {"shuu", "maishuu", "wiikurii"}>>,
     <<"once", {"ikkai", "ichido", "jikaimade"}>> >>

emotions ==
  << <<"anxious", {"fuan", "shinpai", "kinchou", "dokidoki"}>>,
     <<"motivated", {"yaruki", "ganbaru", "ganba", "mochibeeshon"}>>,
     <<"frustrated", {"iraira", "umakuikanai", "modokashii", "haradatsu",
                    "mukatsuku", "mukatsuku_k"}>>,
     <<"confident", {"jishin", "daijoubu", "dekiru"}>>,
     <<"tired", {"tsukare", "tsukare_h", "shindoi", "nemui", "nemui_h",
               "nemuku", "nemuku_h"}>>,
     <<"excited", {"tanoshii", "wakuwaku", "tanoshimi", "tanoshiihanashi",
                 "omoshiroihanashi", "omoshiroihanashi_h", "tanoshiku",
                 "omoshiroku"}>>,
     <<"stressed", {"sutoresu", "puresshaa", "ase"}>>,
     <<"sad", {"kanashii", "tsurai_k", "tsurai", "nakisou", "naita"}>>,
     <<"depressed", {"ochiko", "hekon", "tenshonsaga", "yuuutsu", "yuuutsu_h",
                   "iyanakoto"}>>,
     <<"angry", {"oko", "haradat", "mukatsu", "mukatsu_k", "atamanikuru",
               "atamakita"}>> >>

milestoneKeywords ==
  {"shiken", "tesuto", "honban", "juken", "ibento", "yotei", "tsuki", "hi"}

importance ==
  << <<"critical", {"honban", "juken", "saishuu", "kettei"}>>,
     <<"high", {"juuyou", "taisetsu", "daiji"}>>,
     <<"medium", {"yotei", "keikaku"}>> >>

Words == {"oboeta", "tango", "nigate", "kadai", "shukudai", "fuan", "shiken", "ashita", "yaruki", "raishuu", "konnichiwa"}

patternsIn(word) ==
  CASE word = "oboeta" -> {"oboeta"}
    [] word = "tango" -> {"tango"}
    [] word = "nigate" -> {"nigate"}
    [] word = "kadai" -> {"kadai"}
    [] word = "shukudai" -> {"shukudai"}
    [] word = "fuan" -> {"fuan"}
    [] word = "shiken" -> {"shiken"}
    [] word = "ashita" -> {"hi"}
    [] word = "yaruki" -> {"yaruki"}
    [] word = "raishuu" -> {"shuu"}
    [] word = "konnichiwa" -> {}
    [] word = "sutoresu" -> {"sutoresu"}
    [] word = "bunpou" -> {"bunpou"}
    [] word = "desu" -> {}

DateWords == {"ashita", "raishuu"}

Messages == { text \in SUBSET Words : Cardinality(text) <= MaxWords }

containsPattern(text, patterns) == \E word \in text : patternsIn(word) \cap patterns # {}

\* for (const [name, keywords] of Object.entries(table)): the first entry with
\* a keyword in the text, none when there is no such entry
firstEntry(text, table) ==
  LET hits == { i \in 1..Len(table) : containsPattern(text, table[i][2]) }
  IN IF hits = {} THEN {}
     ELSE { table[CHOOSE i \in hits : \A j \in hits : i <= j][1] }

detectSubject(text) == firstEntry(text, subjects)
detectCategory(text) == firstEntry(text, categories)
detectFrequency(text) == firstEntry(text, frequency)
detectEmotion(text) == firstEntry(text, emotions)
detectImportance(text) == firstEntry(text, importance)

containsDate(text) == text \cap DateWords # {}

\* option || fallback
orElse(option, fallback) == IF option = {} THEN fallback ELSE CHOOSE x \in option : TRUE

\* A decision: every field is absent ({}) or present (a singleton); confidence
\* is in thousandths, NaN the value arithmetic on an absent number gives.
NaN == -1

decision(shouldSave, type, confidence, reason, tags) ==
  [shouldSave |-> {shouldSave}, type |-> {type}, confidence |-> {confidence},
   reason |-> {<<reason>>}, suggestedTags |-> {tags}]

noDecision ==
  [shouldSave |-> {FALSE}, type |-> {}, confidence |-> {0},
   reason |-> {<<"no pattern found">>}, suggestedTags |-> {}]

\* Mutant of analyzeSaveDecision: the commitment keywords are looked at first.
analyzeSaveDecision_commitmentFirst(text) ==
  IF containsPattern(text, commitmentKeywords)
  THEN decision(TRUE, "commitment", 900, "commitment detected",
                <<"commitment", orElse(detectFrequency(text), "once")>>)
  ELSE IF containsPattern(text, learningProgressKeywords) /\ detectSubject(text) # {}
  THEN decision(TRUE, "learning_progress", 800, "progress detected",
                <<"progress", orElse(detectSubject(text), "")>>)
  ELSE IF containsPattern(text, learningChallengeKeywords) /\ detectCategory(text) # {}
  THEN decision(TRUE, "learning_challenge", 850, "challenge detected",
                <<"challenge", orElse(detectCategory(text), "")>>)
  ELSE IF detectEmotion(text) # {}
  THEN decision(TRUE, "emotional_state", 750, "emotion detected",
                <<"emotion", orElse(detectEmotion(text), "")>>)
  ELSE IF containsPattern(text, milestoneKeywords) /\ containsDate(text)
  THEN decision(TRUE, "milestone", 950, "milestone detected",
                <<"milestone", orElse(detectImportance(text), "medium")>>)
  ELSE noDecision

analyzeSaveDecision(text) ==
  IF containsPattern(text, learningProgressKeywords) /\ detectSubject(text) # {}
  THEN decision(TRUE, "learning_progress", 800, "progress detected",
                <<"progress", orElse(detectSubject(text), "")>>)
  ELSE IF containsPattern(text, learningChallengeKeywords) /\ detectCategory(text) # {}
  THEN decision(TRUE, "learning_challenge", 850, "challenge detected",
                <<"challenge", orElse(detectCategory(text), "")>>)
  ELSE IF containsPattern(text, commitmentKeywords)
  THEN decision(TRUE, "commitment", 900, "commitment detected",
                <<"commitment", orElse(detectFrequency(text), "once")>>)
  ELSE IF detectEmotion(text) # {}
  THEN decision(TRUE, "emotional_state", 750, "emotion detected",
                <<"emotion", orElse(detectEmotion(text), "")>>)
  ELSE IF containsPattern(text, milestoneKeywords) /\ containsDate(text)
  THEN decision(TRUE, "milestone", 950, "milestone detected",
                <<"milestone", orElse(detectImportance(text), "medium")>>)
  ELSE noDecision

\* What generateText and JSON.parse give: an exception of the call, a text
\* that is no JSON, or a JSON object with all, or none, of the fields asked for.
LLMConfidences == {0, 500, 1000, 1500}
LLMTypes == { {}, {"emotional_state"}, {"learning_progress"} }

LLMError == [kind |-> "error"]
NotJson == [kind |-> "text"]
EmptyObject ==
  [kind |-> "json", shouldSave |-> {}, type |-> {}, confidence |-> {},
   reason |-> {}, suggestedTags |-> {}]

LLMDecisions ==
  { [kind |-> "json", shouldSave |-> {s}, type |-> t, confidence |-> {c},
     reason |-> {<<"llm">>}, suggestedTags |-> {<<"tag1">>}] :
      s \in BOOLEAN, t \in LLMTypes, c \in LLMConfidences }

LLMReplies == {LLMError, NotJson, EmptyObject} \cup LLMDecisions

\* Mutant of hints: the commitment keywords give no hint.
hints_noCommitment(text) ==
  [learningProgress |-> containsPattern(text, learningProgressKeywords),
   learningChallenge |-> containsPattern(text, learningChallengeKeywords),
   commitment |-> FALSE,
   emotionalState |-> detectEmotion(text),
   milestone |-> containsPattern(text, milestoneKeywords) /\ containsDate(text)]

\* the hints of Step 1, and Object.values(hints).some(h => h)
hints(text) ==
  [learningProgress |-> containsPattern(text, learningProgressKeywords),
   learningChallenge |-> containsPattern(text, learningChallengeKeywords),
   commitment |-> containsPattern(text, commitmentKeywords),
   emotionalState |-> detectEmotion(text),
   milestone |-> containsPattern(text, milestoneKeywords) /\ containsDate(text)]

someHint(text) ==
  LET h == hints(text)
  IN \/ h.learningProgress \/ h.learningChallenge \/ h.commitment
     \/ h.emotionalState # {} \/ h.milestone

truthy(option) == option = {TRUE}

\* Math.min(confidence * factor / 10, cap), on thousandths
scaled(confidence, factor, cap) ==
  IF confidence = {} \/ confidence = {NaN} THEN {NaN}
  ELSE LET c == ((CHOOSE x \in confidence : TRUE) * factor) \div 10
       IN { IF c < cap THEN c ELSE cap }

\* Mutant of overrideConfidence: the product is not capped.
overrideConfidence_uncapped(confidence) ==
  IF confidence = {} \/ confidence = {NaN} THEN {NaN}
  ELSE { ((CHOOSE x \in confidence : TRUE) * 6) \div 10 }

overrideConfidence(confidence) == scaled(confidence, 6, 600)

\* Mutant of boostConfidence: the product is not capped.
boostConfidence_uncapped(confidence) ==
  IF confidence = {} \/ confidence = {NaN} THEN {NaN}
  ELSE { ((CHOOSE x \in confidence : TRUE) * 11) \div 10 }

boostConfidence(confidence) == scaled(confidence, 11, 1000)

\* finalDecision.reason += suffix
reasonWith(reason, suffix) ==
  IF reason = {} THEN {<<"undefined", suffix>>}
  ELSE { Append(CHOOSE r \in reason : TRUE, suffix) }

\* Step 3: the LLM's decision set against the hints
reconciled(text, llmDecision) ==
  IF ~truthy(llmDecision.shouldSave) /\ someHint(text)
  THEN [llmDecision EXCEPT !.shouldSave = {TRUE},
                           !.confidence = overrideConfidence(llmDecision.confidence),
                           !.reason = reasonWith(llmDecision.reason, "keyword detected")]
  ELSE IF truthy(llmDecision.shouldSave) /\ ~someHint(text)
  THEN [llmDecision EXCEPT !.confidence = boostConfidence(llmDecision.confidence)]
  ELSE llmDecision

\* the tags of the final decision, taken from the hints where the type fits
reinforcedTags(text, finalDecision) ==
  IF detectEmotion(text) # {} /\ finalDecision.type = {"emotional_state"}
  THEN {<<"emotion", orElse(detectEmotion(text), "")>>}
  ELSE IF detectSubject(text) # {} /\ finalDecision.type = {"learning_progress"}
  THEN {<<"progress", orElse(detectSubject(text), "")>>}
  ELSE IF detectCategory(text) # {} /\ finalDecision.type = {"learning_challenge"}
  THEN {<<"challenge", orElse(detectCategory(text), "")>>}
  ELSE finalDecision.suggestedTags

\* Mutant of analyzeSaveDecisionWithLLM: a failed call decides not to save.
analyzeSaveDecisionWithLLM_noFallback(text, reply) ==
  IF reply.kind # "json" THEN noDecision
  ELSE LET llmDecision == [f \in DOMAIN reply \ {"kind"} |-> reply[f]]
           finalDecision == reconciled(text, llmDecision)
       IN [finalDecision EXCEPT !.suggestedTags = reinforcedTags(text, finalDecision)]

\* generateText throws, or JSON.parse throws on its text: the catch block
\* returns analyzeSaveDecision(message); a parsed object is taken as it is.
analyzeSaveDecisionWithLLM(text, reply) ==
  IF reply.kind # "json" THEN analyzeSaveDecision(text)
  ELSE LET llmDecision == [f \in DOMAIN reply \ {"kind"} |-> reply[f]]
           finalDecision == reconciled(text, llmDecision)
       IN [finalDecision EXCEPT !.suggestedTags = reinforcedTags(text, finalDecision)]

\* ------------------------------------------------------------------- state
Idle == [pc |-> "idle"]

Init ==
  /\ files = [p \in Paths |-> <<>>]
  /\ present = {}
  /\ now = 0
  /\ nextId = 1
  /\ assigned = {}
  /\ touches = [i \in Ids |-> 0]
  /\ last = [op |-> "none"]
  /\ inflight = Idle

\* Mutant of fullMemoryOf: the save itself counts as an access.
fullMemoryOf_accessedOne(memory, id, t) ==
  [f \in DOMAIN memory \cup {"id", "timestamp", "accessed"} |->
     IF f = "id" THEN id
     ELSE IF f = "timestamp" THEN t
     ELSE IF f = "accessed" THEN 1
     ELSE memory[f]]

fullMemoryOf(memory, id, t) ==
  [f \in DOMAIN memory \cup {"id", "timestamp", "accessed"} |->
     IF f = "id" THEN id
     ELSE IF f = "timestamp" THEN t
     ELSE IF f = "accessed" THEN 0
     ELSE memory[f]]

\* fs.appendFileSync(filePath, JSON.stringify(fullMemory) + '\n')
appendLine(memory, id) ==
  LET p == getMemoryFilePath(memory.userId) IN
  /\ files' = [files EXCEPT ![p] = Append(IF p \in present THEN @ ELSE <<>>,
                                          stringify(fullMemoryOf(memory, id, now)))]
  /\ present' = present \cup {p}

\* Mutant of writeFile: the content is added to the end of the file.
writeFile_append(userId, memories) ==
  /\ files' = [files EXCEPT ![getMemoryFilePath(userId)] = @ \o fileContent(memories)]
  /\ present' = present \cup {getMemoryFilePath(userId)}

\* fs.writeFileSync(filePath, content)
writeFile(userId, memories) ==
  /\ files' = [files EXCEPT ![getMemoryFilePath(userId)] = fileContent(memories)]
  /\ present' = present \cup {getMemoryFilePath(userId)}

\* fs.unlinkSync(filePath), when the file exists
unlinkFile(userId) ==
  /\ files' = [files EXCEPT ![getMemoryFilePath(userId)] = <<>>]
  /\ present' = present \ {getMemoryFilePath(userId)}

idsOf(memories) == { memories[i].id : i \in 1..Len(memories) }

storedIds(fs, ex) == UNION { idsOf(loadFrom(fs, ex, u)) : u \in UserIds }

\* Mutant of uuidv4: the id is the number of stored records plus one.
uuidv4_byCount == Cardinality(storedIds(files, present)) + 1

\* uuidv4(): an identifier that no earlier call returned
uuidv4 == nextId

\* touches counts, for every stored id, the calls of updateMemoryAccess that
\* found it; the count of an id that a rewrite took out of the file is dropped.
touchesWithout(removed) == [i \in Ids |-> IF i \in removed THEN 0 ELSE touches[i]]

\* ---------------------------------------------- one server process (Spec)
saveMemory(memory) ==
  /\ nextId <= MaxIds
  /\ appendLine(memory, uuidv4)
  /\ nextId' = nextId + 1
  /\ assigned' = assigned \cup {uuidv4}
  /\ last' = [op |-> "append", ret |-> uuidv4]
  /\ UNCHANGED <<now, touches, inflight>>

updateMemoryAccess(userId, memoryId) ==
  LET memories == loadMemories(userId)
      memoryIndex == findIndex(memories, memoryId)
  IN /\ IF memoryIndex = -1
        THEN UNCHANGED <<files, present, touches>>
        ELSE /\ memories[memoryIndex].accessed < MaxAccessed
             /\ writeFile(userId, accessUpdated(memories, memoryIndex, now))
             /\ touches' = [touches EXCEPT ![memoryId] = @ + 1]
     /\ last' = [op |-> "touch", skipped |-> parseErrors(userId)]
     /\ UNCHANGED <<now, nextId, assigned, inflight>>

expireMemory(userId, memoryId) ==
  LET memories == loadMemories(userId)
      memoryIndex == findIndex(memories, memoryId)
  IN /\ IF memoryIndex = -1
        THEN UNCHANGED <<files, present>>
        ELSE writeFile(userId, expireMarked(memories, memoryIndex))
     /\ last' = [op |-> "expire", skipped |-> parseErrors(userId)]
     /\ UNCHANGED <<now, nextId, assigned, touches, inflight>>

deleteMemory(userId, memoryId) ==
  LET memories == loadMemories(userId)
      memoryIndex == findIndex(memories, memoryId)
      rest == splice(memories, memoryIndex)
  IN /\ IF memoryIndex = -1
        THEN UNCHANGED <<files, present, touches>>
        ELSE /\ IF Len(rest) > 0 THEN writeFile(userId, rest) ELSE unlinkFile(userId)
             /\ touches' = touchesWithout({memoryId})
     /\ last' = [op |-> "delete", ret |-> memoryIndex # -1, skipped |-> parseErrors(userId)]
     /\ UNCHANGED <<now, nextId, assigned, inflight>>

cleanupOldMemories(userId, daysOld) ==
  LET memories == loadMemories(userId)
      kept == memoriesToKeep(memories, now - daysOld)
      deletedCount == Len(memories) - Len(kept)
  IN /\ IF deletedCount > 0
        THEN /\ writeFile(userId, kept)
             /\ touches' = touchesWithout(idsOf(memories) \ idsOf(kept))
        ELSE UNCHANGED <<files, present, touches>>
     /\ last' = [op |-> "cleanup", userId |-> userId, ret |-> deletedCount,
                 skipped |-> parseErrors(userId)]
     /\ UNCHANGED <<now, nextId, assigned, inflight>>

Search(criteria) ==
  /\ last' = [op |-> "search", criteria |-> criteria,
              threw |-> searchThrows(criteria), read |-> searchReads(criteria),
              ret |-> IF searchThrows(criteria) THEN <<>> ELSE searchMemories(criteria)]
  /\ UNCHANGED <<files, present, now, nextId, assigned, touches, inflight>>

Load(userId) ==
  /\ last' = [op |-> "load", userId |-> userId, ret |-> loadMemories(userId)]
  /\ UNCHANGED <<files, present, now, nextId, assigned, touches, inflight>>

Tick ==
  /\ now < MaxTime
  /\ now' = now + 1
  /\ last' = [op |-> "tick"]
  /\ UNCHANGED <<files, present, nextId, assigned, touches, inflight>>

Next ==
  \/ \E memory \in MemoryInputs : saveMemory(memory)
  \/ \E userId \in OpUserIds, memoryId \in Ids : updateMemoryAccess(userId, memoryId)
  \/ \E userId \in OpUserIds, memoryId \in Ids : expireMemory(userId, memoryId)
  \/ \E userId \in OpUserIds, memoryId \in Ids : deleteMemory(userId, memoryId)
  \/ \E userId \in OpUserIds, daysOld \in DaysOldArgs \cup {DefaultDaysOld} :
       cleanupOldMemories(userId, daysOld)
  \/ \E criteria \in CalledCriteria : Search(criteria)
  \/ Tick

Spec == Init /\ [][Next]_vars

\* ------------------------------- searches of a stored file (SpecSearch)
\* What u1's file holds when it is searched: up to MaxStored records, each
\* saved at SearchNows or earlier and possibly expired since by expireMemory.
SearchNows == {1, 2}

storedRecord(memory, t, expired) == [memory |-> memory, timestamp |-> t, expired |-> expired]

StoredRecords ==
  { storedRecord(memoryInput(<<"u1">>, "commitment", 5, {}), 0, FALSE),
    storedRecord(memoryInput(<<"u1">>, "milestone", 5, {1}), 0, FALSE),
    storedRecord(memoryInput(<<"u1">>, "custom", 7, {}), 1, TRUE),
    storedRecord(memoryInput(<<"u1">>, "milestone", 7, {}), 1, FALSE) }

StoredLists ==
  { l \in UNION { [1..n -> StoredRecords] : n \in 0..MaxStored } :
      \A i, j \in 1..Len(l) : i < j => l[i].timestamp <= l[j].timestamp }

\* the records of a list as saveMemory and expireMemory leave them in the file
storedMemories(l) ==
  [i \in 1..Len(l) |->
     [fullMemoryOf(l[i].memory, i, l[i].timestamp) EXCEPT !.expired = l[i].expired]]

InitSearch ==
  \E l \in StoredLists :
     /\ files = [p \in Paths |->
                   IF p = getMemoryFilePath(<<"u1">>) /\ Len(l) > 0
                   THEN fileContent(storedMemories(l)) ELSE <<>>]
     /\ present = IF Len(l) > 0 THEN {getMemoryFilePath(<<"u1">>)} ELSE {}
     /\ now \in SearchNows
     /\ nextId = Len(l) + 1
     /\ assigned = 1..Len(l)
     /\ touches = [i \in Ids |-> 0]
     /\ last = [op |-> "none"]
     /\ inflight = Idle

\* The criteria a stored file is searched with: the ones above, each further
\* predicate once, and the two smallest limits.
SearchedCriteria ==
  CalledCriteria \cup
  { NoCriteria({<<"u1">>}),
    NoCriteria({<<"u2">>}),
    [NoCriteria({<<"u1">>}) EXCEPT !.tags = {<<>>}],
    [NoCriteria({<<"u1">>}) EXCEPT !.tags = {<<"high", "x">>}, !.type = {{"milestone"}}],
    [NoCriteria({<<"u1">>}) EXCEPT !.fromDate = {1}, !.minRelevance = {7}],
    [NoCriteria({<<"u1">>}) EXCEPT !.toDate = {1}, !.limit = {0}] }

Stats(userId) ==
  /\ last' = [op |-> "stats", userId |-> userId, ret |-> getMemoryStats(userId)]
  /\ UNCHANGED <<files, present, now, nextId, assigned, touches, inflight>>

NextSearch ==
  \/ \E criteria \in SearchedCriteria : Search(criteria)
  \/ \E userId \in OpUserIds : Stats(userId)

SpecSearch == InitSearch /\ [][NextSearch]_vars

\* ------------------- calls on a file with malformed lines (SpecFile)
\* What u1's file holds when the calls start: up to MaxLines lines, among them
\* the lines of two saved records in the order of their appends, and lines
\* that are not records (a torn or hand-edited file).
FileNow == 1

FileRecords ==
  << fullMemoryOf(memoryInput(<<"u1">>, "commitment", 5, {}), 1, 0),
     fullMemoryOf(memoryInput(<<"u1">>, "milestone", 5, {0}), 2, 1) >>

FileLines == { stringify(FileRecords[i]) : i \in 1..Len(FileRecords) } \cup {Blank, Garbage, JsonNull}

recordLineAt(lines, i, k) == lines[i] = stringify(FileRecords[k])

FileContents ==
  { lines \in UNION { [1..n -> FileLines] : n \in 0..MaxLines } :
      /\ \A i, j \in 1..Len(lines) : \A k \in 1..Len(FileRecords) :
            recordLineAt(lines, i, k) /\ recordLineAt(lines, j, k) => i = j
      /\ \A i, j \in 1..Len(lines) :
            recordLineAt(lines, i, 2) /\ recordLineAt(lines, j, 1) => j < i }

InitFile ==
  \E lines \in FileContents, exists \in BOOLEAN :
     /\ exists \/ lines = <<>>
     /\ files = [p \in Paths |-> IF p = getMemoryFilePath(<<"u1">>) THEN lines ELSE <<>>]
     /\ present = IF exists THEN {getMemoryFilePath(<<"u1">>)} ELSE {}
     /\ now = FileNow
     /\ nextId = Len(FileRecords) + 1
     /\ assigned = 1..Len(FileRecords)
     /\ touches = [i \in Ids |-> 0]
     /\ last = [op |-> "none"]
     /\ inflight = Idle

NextFile ==
  \/ \E userId \in OpUserIds : Load(userId)
  \/ \E userId \in OpUserIds, memoryId \in Ids : updateMemoryAccess(userId, memoryId)
  \/ \E userId \in OpUserIds, memoryId \in Ids : expireMemory(userId, memoryId)
  \/ \E userId \in OpUserIds, memoryId \in Ids : deleteMemory(userId, memoryId)
  \/ \E userId \in OpUserIds, daysOld \in DaysOldArgs \cup {DefaultDaysOld} :
       cleanupOldMemories(userId, daysOld)

SpecFile == InitFile /\ [][NextFile]_vars

\* ------------------------ a record through the codec (SpecCodec)
\* the content the save tool builds for a decision of each type
memoryContent(type, message, t) ==
  LET base == [type |-> type, date |-> toISOString(t), originalMessage |-> message]
      with(more) == [f \in DOMAIN base \cup DOMAIN more |->
                       IF f \in DOMAIN more THEN more[f] ELSE base[f]]
  IN CASE type = "learning_progress" ->
            with([subject |-> "vocabulary", achievement |-> message])
       [] type = "learning_challenge" ->
            with([category |-> "grammar", description |-> message, resolved |-> FALSE])
       [] type = "commitment" ->
            with([task |-> message, frequency |-> "once",
                  deadline |-> toISOString(t + 7 * DayTicks), completed |-> FALSE])
       [] type = "emotional_state" ->
            with([emotion |-> "anxious", intensity |-> 3])
       [] type = "milestone" ->
            with([event |-> message, importance |-> "medium",
                  eventDate |-> toISOString(t + 30 * DayTicks)])
       [] OTHER -> base

CodecDates == 0..MaxTime
OptionalDates == {{}} \cup { {d} : d \in CodecDates }

\* the records a file can hold: of every type, touched or not, expired or
\* not, with and without a deadline
CodecMemories ==
  { [id |-> 1, userId |-> <<"u1">>, sessionId |-> "default", type |-> type,
     content |-> memoryContent(type, "m", t), timestamp |-> t, relevance |-> r,
     accessed |-> IF la = {} THEN 0 ELSE 1, lastAccessed |-> la,
     tags |-> tagsOf(type), expired |-> x, expiresAt |-> e] :
      type \in MemoryType, t \in CodecDates, r \in {5, HighRelevance},
      la \in OptionalDates, x \in BOOLEAN, e \in OptionalDates }

InitCodec ==
  /\ \E memory \in CodecMemories : last = [op |-> "memory", memory |-> memory]
  /\ files = [p \in Paths |-> <<>>]
  /\ present = {}
  /\ now = 0
  /\ nextId = 1
  /\ assigned = {}
  /\ touches = [i \in Ids |-> 0]
  /\ inflight = Idle

\* JSON.stringify(memory)
Stringify ==
  /\ last.op = "memory"
  /\ last' = [op |-> "line", memory |-> last.memory, line |-> stringify(last.memory)]
  /\ UNCHANGED <<files, present, now, nextId, assigned, touches, inflight>>

\* JSON.parse(line) and the Date restore
Parse ==
  /\ last.op = "line"
  /\ isJson(last.line)
  /\ last' = [op |-> "parsed", memory |-> last.memory, ret |-> parseLine(last.line)]
  /\ UNCHANGED <<files, present, now, nextId, assigned, touches, inflight>>

NextCodec == Stringify \/ Parse

SpecCodec == InitCodec /\ [][NextCodec]_vars

\* ------------------ save decisions on a message (SpecClassify)
InitClassify ==
  /\ \E message \in Messages : last = [op |-> "message", message |-> message]
  /\ files = [p \in Paths |-> <<>>]
  /\ present = {}
  /\ now = 0
  /\ nextId = 1
  /\ assigned = {}
  /\ touches = [i \in Ids |-> 0]
  /\ inflight = Idle

DecideByKeywords ==
  /\ last' = [op |-> "keywords", message |-> last.message,
              decision |-> analyzeSaveDecision(last.message)]
  /\ UNCHANGED <<files, present, now, nextId, assigned, touches, inflight>>

DecideHybrid(reply) ==
  /\ last' = [op |-> "hybrid", message |-> last.message, reply |-> reply,
              decision |-> analyzeSaveDecisionWithLLM(last.message, reply)]
  /\ UNCHANGED <<files, present, now, nextId, assigned, touches, inflight>>

NextClassify ==
  \/ DecideByKeywords
  \/ \E reply \in LLMReplies : DecideHybrid(reply)

SpecClassify == InitClassify /\ [][NextClassify]_vars

\* ------------- the hybrid decision as a call in flight (SpecHybridCall)
\* generateText is awaited with model, prompt and temperature and with no
\* timeout or abort signal: the call goes on when the promise settles, with
\* a text or an exception (a failure of the transport is LLMError), and a
\* promise of an LLM that never answers does not settle.
Silent == [kind |-> "silent"]

LLMBehaviours == LLMReplies \cup {Silent}

\* the call on the message, up to `await generateText(...)`
CallHybrid(llm) ==
  /\ last.op = "message"
  /\ inflight = Idle
  /\ inflight' = [pc |-> "awaiting", message |-> last.message, llm |-> llm]
  /\ last' = [op |-> "called", message |-> last.message]
  /\ UNCHANGED <<files, present, now, nextId, assigned, touches>>

\* the promise settles: the rest of the try block, or the catch block
GenerateTextSettles ==
  /\ inflight.pc = "awaiting"
  /\ inflight.llm # Silent
  /\ last' = [op |-> "hybrid", message |-> inflight.message, reply |-> inflight.llm,
              decision |-> analyzeSaveDecisionWithLLM(inflight.message, inflight.llm)]
  /\ inflight' = Idle
  /\ UNCHANGED <<files, present, now, nextId, assigned, touches>>

NextHybridCall ==
  \/ \E llm \in LLMBehaviours : CallHybrid(llm)
  \/ GenerateTextSettles

\* The event loop resumes the call once its promise has settled.
SpecHybridCall ==
  InitClassify /\ [][NextHybridCall]_vars /\ WF_vars(GenerateTextSettles)

\* ---------------------- retrieval decision (memory-analyzer.ts, SpecRetrieve)
\* Math.ceil((date.getTime() - currentDate.getTime()) / (1000 * 60 * 60 * 24))
daysUntil(date, currentDate) == -((currentDate - date) \div DayTicks)

\* extractKeywords: the words of the text that are no stop words (every other
\* word of the model has two characters or more, and a text fewer than the
\* ten keywords the code stops at)
stopWords == {"wa", "ga", "wo", "ni", "de", "to", "no", "desu", "masu", "shita"}

extractKeywords(text) == { word \in text : word \notin stopWords }

isRelatedContent(text, previousContent) ==
  Cardinality(extractKeywords(text) \cap extractKeywords(previousContent)) >= 2

retrievalCriteria(userId, type, notExpired, fromDate, limit) ==
  [NoCriteria({userId}) EXCEPT !.type = { {ty} : ty \in type },
                               !.notExpired = notExpired,
                               !.fromDate = fromDate, !.limit = {limit}]

scored(memories, score) == [i \in 1..Len(memories) |-> <<memories[i], score>>]

\* Mutant of isDueCommitment: only a deadline that has passed counts.
isDueCommitment_overdueOnly(memory, currentDate) ==
  LET daysUntilDeadline == daysUntil(newDate(memory.content.deadline), currentDate)
  IN daysUntilDeadline <= 0 /\ daysUntilDeadline >= -1 /\ ~memory.content.completed

\* 1. commitments that are due
isDueCommitment(memory, currentDate) ==
  LET daysUntilDeadline == daysUntil(newDate(memory.content.deadline), currentDate)
  IN daysUntilDeadline <= 3 /\ daysUntilDeadline >= -1 /\ ~memory.content.completed

commitmentPass(fs, ex, t, userId) ==
  LET commitments == searchIn(fs, ex, t, retrievalCriteria(userId, {"commitment"}, TRUE, {}, 5))
      due(memory) == isDueCommitment(memory, t)
  IN scored(SelectSeq(commitments, due), 9)

\* 2. open challenges related to a message that names a difficulty
challengePass(fs, ex, t, text, userId) ==
  IF containsPattern(text, learningChallengeKeywords)
  THEN LET challenges ==
             searchIn(fs, ex, t, retrievalCriteria(userId, {"learning_challenge"}, TRUE, {}, 3))
           open(memory) == /\ ~memory.content.resolved
                           /\ isRelatedContent(text, memory.content.description)
       IN scored(SelectSeq(challenges, open), 8)
  ELSE <<>>

\* 3. emotional states of the last seven days that continue the message's
sameEmotion(stateEmotion, currentEmotion) ==
  \/ stateEmotion = currentEmotion
  \/ currentEmotion = "anxious" /\ stateEmotion = "stressed"

emotionPass(fs, ex, t, text, userId) ==
  LET recentEmotions ==
        searchIn(fs, ex, t, retrievalCriteria(userId, {"emotional_state"}, FALSE,
                                              {t - 7 * DayTicks}, 5))
      continues(memory) ==
        \E currentEmotion \in detectEmotion(text) :
           sameEmotion(memory.content.emotion, currentEmotion)
  IN scored(SelectSeq(recentEmotions, continues), 7)

\* 4. milestones that come near
isNearMilestone(memory, currentDate) ==
  LET daysUntilEvent == daysUntil(newDate(memory.content.eventDate), currentDate)
  IN daysUntilEvent <= 14 /\ daysUntilEvent >= 0

milestoneScore(memory) ==
  IF memory.content.importance = "critical" THEN 10
  ELSE IF memory.content.importance = "high" THEN 9 ELSE 8

milestonePass(fs, ex, t, userId) ==
  LET milestones == searchIn(fs, ex, t, retrievalCriteria(userId, {"milestone"}, TRUE, {}, 3))
      near(memory) == isNearMilestone(memory, t)
      found == SelectSeq(milestones, near)
  IN [i \in 1..Len(found) |-> <<found[i], milestoneScore(found[i])>>]

\* relevanceScores after the set calls of a list of (memory, score): the
\* last score set for an id
scoresOf(pairs) ==
  [id \in { pairs[i][1].id : i \in 1..Len(pairs) } |->
     pairs[CHOOSE i \in 1..Len(pairs) :
             /\ pairs[i][1].id = id
             /\ \A j \in 1..Len(pairs) : pairs[j][1].id = id => j <= i][2]]

\* Array.from(new Set(ids)).map(id => relevantMemories.find(...)): the first
\* memory of every id, in the order of first occurrence
uniqueById(pairs) ==
  LET first(i) == \A j \in 1..(i - 1) : pairs[j][1].id # pairs[i][1].id
      kept == { i \in 1..Len(pairs) : first(i) }
      nth(k) == CHOOSE i \in kept : Cardinality({ j \in kept : j < i }) = k - 1
  IN [k \in 1..Cardinality(kept) |-> pairs[nth(k)][1]]

scoreIn(scores, memory) == IF memory.id \in DOMAIN scores THEN scores[memory.id] ELSE 0

RECURSIVE insertByScore(_, _, _)
insertByScore(scores, m, sorted) ==
  IF sorted = <<>> THEN <<m>>
  ELSE IF scoreIn(scores, Head(sorted)) < scoreIn(scores, m) THEN <<m>> \o sorted
       ELSE <<Head(sorted)>> \o insertByScore(scores, m, Tail(sorted))

\* Mutant of sortByScore: the list is left in the order of the passes.
sortByScore_passOrder(scores, memories) == memories

\* .sort((a, b) => score(b) - score(a)): stable, descending
RECURSIVE sortByScore(_, _)
sortByScore(scores, memories) ==
  IF memories = <<>> THEN <<>>
  ELSE insertByScore(scores, memories[Len(memories)],
                     sortByScore(scores, SubSeq(memories, 1, Len(memories) - 1)))

\* Mutant of slice: nothing is cut off.
slice_whole(memories, n) == memories

\* .slice(0, n)
slice(memories, n) == SubSeq(memories, 1, IF n < Len(memories) THEN n ELSE Len(memories))

\* Mutant of analyzeRetrievalDecisionIn: no second search when no pass matched.
analyzeRetrievalDecisionIn_noFallback(fs, ex, t, text, userId) ==
  LET relevant == commitmentPass(fs, ex, t, userId) \o challengePass(fs, ex, t, text, userId)
                    \o emotionPass(fs, ex, t, text, userId) \o milestonePass(fs, ex, t, userId)
      relevanceScores == scoresOf(relevant)
      uniqueMemories == slice(sortByScore(relevanceScores, uniqueById(relevant)), 3)
  IN [memories |-> slice(uniqueMemories, 3),
      relevanceScores |-> relevanceScores,
      reason |-> Len(uniqueMemories)]

analyzeRetrievalDecisionIn(fs, ex, t, text, userId) ==
  LET relevant == commitmentPass(fs, ex, t, userId) \o challengePass(fs, ex, t, text, userId)
                    \o emotionPass(fs, ex, t, text, userId) \o milestonePass(fs, ex, t, userId)
      relevanceScores == scoresOf(relevant)
      uniqueMemories == slice(sortByScore(relevanceScores, uniqueById(relevant)), 3)
      recentMemories == searchIn(fs, ex, t, retrievalCriteria(userId, {}, TRUE, {}, 3))
  IN IF Len(uniqueMemories) = 0
     THEN [memories |-> slice(recentMemories, 3),
           relevanceScores |-> scoresOf(scored(recentMemories, 3)),
           reason |-> Len(recentMemories)]
     ELSE [memories |-> slice(uniqueMemories, 3),
           relevanceScores |-> relevanceScores,
           reason |-> Len(uniqueMemories)]

analyzeRetrievalDecision(text, userId) ==
  analyzeRetrievalDecisionIn(files, present, now, text, userId)

\* What u1's file holds when a message comes in at RetrieveNow: up to MaxKept
\* records that the save tool built (a deadline seven days and an event date
\* thirty days after the save, nothing completed or resolved), some of them
\* expired since by expireMemory.
RetrieveNow == 80

RetrievalMessages ==
  { {"konnichiwa"}, {"fuan"}, {"sutoresu"},
    {"nigate", "bunpou", "desu"}, {"nigate", "desu"}, {"nigate", "bunpou", "fuan"} }

\* the content the save tool builds, with the emotion or importance it takes
\* from the second suggested tag
savedContent(type, text, tag, t) ==
  IF type = "emotional_state" THEN [memoryContent(type, text, t) EXCEPT !.emotion = tag]
  ELSE IF type = "milestone" THEN [memoryContent(type, text, t) EXCEPT !.importance = tag]
  ELSE memoryContent(type, text, t)

savedRecord(type, text, tag, relevance, t, expired) ==
  storedRecord([memoryInput(<<"u1">>, type, relevance, {})
                  EXCEPT !.content = savedContent(type, text, tag, t)], t, expired)

RetrievedRecords ==
  { savedRecord("commitment", {"shukudai"}, "once", 9, RetrieveNow - 6 * DayTicks, FALSE),
    savedRecord("commitment", {"shukudai"}, "once", 9, RetrieveNow - 6 * DayTicks, TRUE),
    savedRecord("commitment", {"shukudai"}, "once", 9, RetrieveNow - DayTicks, FALSE),
    savedRecord("milestone", {"shiken", "ashita"}, "critical", 9,
                RetrieveNow - 28 * DayTicks, FALSE),
    savedRecord("emotional_state", {"fuan"}, "anxious", 7, RetrieveNow - DayTicks, FALSE),
    savedRecord("emotional_state", {"sutoresu"}, "stressed", 7, RetrieveNow - DayTicks, FALSE),
    savedRecord("emotional_state", {"fuan"}, "anxious", 7, RetrieveNow - 8 * DayTicks, FALSE),
    savedRecord("emotional_state", {"fuan"}, "anxious", 7, RetrieveNow - 2 * DayTicks, TRUE),
    savedRecord("learning_challenge", {"nigate", "bunpou"}, "grammar", 8,
                RetrieveNow - 2 * DayTicks, FALSE),
    savedRecord("learning_progress", {"oboeta", "tango"}, "vocabulary", 5,
                RetrieveNow - 1, FALSE) }

RetrievedLists ==
  { l \in UNION { [1..n -> RetrievedRecords] : n \in 0..MaxKept } :
      \A i, j \in 1..Len(l) : i < j => l[i].timestamp <= l[j].timestamp }

InitRetrieve ==
  \E l \in RetrievedLists :
     /\ files = [p \in Paths |->
                   IF p = getMemoryFilePath(<<"u1">>) /\ Len(l) > 0
                   THEN fileContent(storedMemories(l)) ELSE <<>>]
     /\ present = IF Len(l) > 0 THEN {getMemoryFilePath(<<"u1">>)} ELSE {}
     /\ now = RetrieveNow
     /\ nextId = Len(l) + 1
     /\ assigned = 1..Len(l)
     /\ touches = [i \in Ids |-> 0]
     /\ last = [op |-> "none"]
     /\ inflight = Idle

Decide(message) ==
  /\ last' = [op |-> "decide", message |-> message,
              ret |-> analyzeRetrievalDecision(message, <<"u1">>)]
  /\ UNCHANGED <<files, present, now, nextId, assigned, touches, inflight>>

NextRetrieve == \E message \in RetrievalMessages : Decide(message)

SpecRetrieve == InitRetrieve /\ [][NextRetrieve]_vars

\* ------------- more dated records than a search returns (SpecRetrieveDue)
\* Up to MaxDue commitments and milestones, saved at any half of a day: a
\* deadline a day ahead (judged by keywords, relevance 0.9, or by the LLM
\* with less confidence) or a day and a half back, an event two days ahead
\* or half a day back.
DueRecords ==
  { savedRecord("commitment", {"shukudai"}, "once", 9, RetrieveNow - 6 * DayTicks, FALSE),
    savedRecord("commitment", {"shukudai"}, "once", 5, RetrieveNow - 6 * DayTicks, FALSE),
    savedRecord("commitment", {"shukudai"}, "once", 9, RetrieveNow - 8 * DayTicks - 1, FALSE),
    savedRecord("milestone", {"shiken", "ashita"}, "high", 9,
                RetrieveNow - 28 * DayTicks, FALSE),
    savedRecord("milestone", {"shiken", "ashita"}, "critical", 9,
                RetrieveNow - 30 * DayTicks - 1, FALSE) }

DueLists ==
  { l \in UNION { [1..n -> DueRecords] : n \in 0..MaxDue } :
      \A i, j \in 1..Len(l) : i < j => l[i].timestamp <= l[j].timestamp }

InitRetrieveDue ==
  \E l \in DueLists :
     /\ files = [p \in Paths |->
                   IF p = getMemoryFilePath(<<"u1">>) /\ Len(l) > 0
                   THEN fileContent(storedMemories(l)) ELSE <<>>]
     /\ present = IF Len(l) > 0 THEN {getMemoryFilePath(<<"u1">>)} ELSE {}
     /\ now = RetrieveNow
     /\ nextId = Len(l) + 1
     /\ assigned = 1..Len(l)
     /\ touches = [i \in Ids |-> 0]
     /\ last = [op |-> "none"]
     /\ inflight = Idle

SpecRetrieveDue == InitRetrieveDue /\ [][NextRetrieve]_vars

\* ------------------------------ two processes on one directory (SpecRace)
RaceOps == {"touch", "expire", "delete", "cleanup"}
RaceUserIds == { <<"u1">> }
RaceInputs == { m \in MemoryInputs : m.userId \in RaceUserIds /\ m.type = "commitment" }
RaceIds == 1..MaxRaceIds

\* The first half of a call: loadMemories(userId). arg is the memoryId of
\* updateMemoryAccess, expireMemory and deleteMemory, the daysOld of cleanup.
RaceLoad(op, userId, arg) ==
  /\ inflight = Idle
  /\ inflight' = [pc |-> "loaded", op |-> op, userId |-> userId, arg |-> arg,
                  memories |-> loadMemories(userId)]
  /\ UNCHANGED <<files, present, now, nextId, assigned, touches, last>>

\* The second half of a call: the change made to the loaded list and the rewrite.
RaceFinish ==
  LET c == inflight
      memories == c.memories
      memoryIndex == findIndex(memories, c.arg)
      rest == splice(memories, memoryIndex)
      kept == memoriesToKeep(memories, now - c.arg)
      touched == IF c.op = "touch" /\ memoryIndex # -1 THEN {c.arg} ELSE {}
  IN /\ c.pc = "loaded"
     /\ \/ /\ c.op = "touch"
           /\ IF memoryIndex = -1 THEN UNCHANGED <<files, present>>
              ELSE /\ memories[memoryIndex].accessed < MaxRaceAccessed
                   /\ touches[c.arg] < MaxRaceAccessed
                   /\ writeFile(c.userId, accessUpdated(memories, memoryIndex, now))
           /\ last' = [op |-> "touch"]
        \/ /\ c.op = "expire"
           /\ IF memoryIndex = -1 THEN UNCHANGED <<files, present>>
              ELSE writeFile(c.userId, expireMarked(memories, memoryIndex))
           /\ last' = [op |-> "expire"]
        \/ /\ c.op = "delete"
           /\ IF memoryIndex = -1 THEN UNCHANGED <<files, present>>
              ELSE IF Len(rest) > 0 THEN writeFile(c.userId, rest) ELSE unlinkFile(c.userId)
           /\ last' = [op |-> "delete", ret |-> memoryIndex # -1]
        \/ /\ c.op = "cleanup"
           /\ IF Len(memories) - Len(kept) > 0 THEN writeFile(c.userId, kept)
              ELSE UNCHANGED <<files, present>>
           /\ last' = [op |-> "cleanup", userId |-> c.userId,
                       ret |-> Len(memories) - Len(kept)]
     /\ touches' = [i \in Ids |->
                      IF i \notin storedIds(files', present') THEN 0
                      ELSE touches[i] + (IF i \in touched THEN 1 ELSE 0)]
     /\ inflight' = Idle
     /\ UNCHANGED <<now, nextId, assigned>>

\* A call of the first process, from its load to its rewrite.
RaceAtomic(op, userId, arg) ==
  /\ op = "touch" =>
       /\ touches[arg] < MaxRaceAccessed
       /\ \A i \in 1..Len(loadMemories(userId)) :
             loadMemories(userId)[i].id = arg =>
                loadMemories(userId)[i].accessed < MaxRaceAccessed
  /\ \/ op = "touch" /\ updateMemoryAccess(userId, arg)
     \/ op = "expire" /\ expireMemory(userId, arg)
     \/ op = "delete" /\ deleteMemory(userId, arg)
     \/ op = "cleanup" /\ cleanupOldMemories(userId, arg)

RaceAppend(memory) ==
  /\ nextId <= MaxRaceIds
  /\ saveMemory(memory)

NextRace ==
  \/ \E op \in RaceOps, userId \in RaceUserIds, arg \in RaceIds :
       RaceLoad(op, userId, IF op = "cleanup" THEN arg - 1 ELSE arg)
  \/ RaceFinish
  \/ \E op \in RaceOps, userId \in RaceUserIds, arg \in RaceIds :
       RaceAtomic(op, userId, IF op = "cleanup" THEN arg - 1 ELSE arg)
  \/ \E memory \in RaceInputs : RaceAppend(memory)

SpecRace == Init /\ [][NextRace]_vars

\* ------------------------------------------ the thinking log (SpecThinking)
\* The store (logs, currentMessageId) and the requests that use it are kept
\* in inflight: pc is the place of each request in its handler and produced
\* the number of tool steps its agent run has made so far.  A step carries
\* the request it was made for (by), which the code does not store.
MessageIds == {"A", "B"}

NoLog == [absent |-> TRUE]

EmptyStore == [logs |-> [m \in MessageIds |-> NoLog], currentMessageId |-> {}]

thinkingStep(by, step) == [by |-> by, step |-> step]

startThinking(store, messageId) ==
  [store EXCEPT !.logs[messageId] = [messageId |-> messageId, status |-> "thinking",
                                     steps |-> <<>>],
                !.currentMessageId = {messageId}]

addStep(store, messageId, step) ==
  IF store.logs[messageId] = NoLog THEN store
  ELSE [store EXCEPT !.logs[messageId].steps = Append(@, step)]

completeThinking(store, messageId, status) ==
  IF store.logs[messageId] = NoLog THEN store
  ELSE [store EXCEPT !.logs[messageId].status = status,
                     !.currentMessageId = IF @ = {messageId} THEN {} ELSE @]

addCurrentStep(store, step) ==
  IF store.currentMessageId # {}
  THEN addStep(store, CHOOSE m \in store.currentMessageId : TRUE, step)
  ELSE store

InitThinking ==
  /\ inflight = [store |-> EmptyStore,
                 pc |-> [m \in MessageIds |-> "new"],
                 produced |-> [m \in MessageIds |-> 0]]
  /\ last = [op |-> "none"]
  /\ files = [p \in Paths |-> <<>>]
  /\ present = {}
  /\ now = 0
  /\ nextId = 1
  /\ assigned = {}
  /\ touches = [i \in Ids |-> 0]

\* POST /agent/ask down to its first await: the log is opened and the
\* request's own logger writes two steps into it
Ask(messageId) ==
  /\ inflight.pc[messageId] = "new"
  /\ inflight' = [inflight EXCEPT
        !.store = addStep(addStep(startThinking(@, messageId),
                                  messageId, thinkingStep(messageId, "received")),
                          messageId, thinkingStep(messageId, "context")),
        !.pc[messageId] = "generating"]
  /\ last' = [op |-> "ask", messageId |-> messageId]
  /\ UNCHANGED <<files, present, now, nextId, assigned, touches>>

\* a tool of the request's agent run reports a step
ToolStep(messageId) ==
  /\ inflight.pc[messageId] = "generating"
  /\ inflight.produced[messageId] < MaxToolSteps
  /\ inflight' = [inflight EXCEPT
        !.store = addCurrentStep(@, thinkingStep(messageId, "tool")),
        !.produced[messageId] = @ + 1]
  /\ last' = [op |-> "tool", messageId |-> messageId]
  /\ UNCHANGED <<files, present, now, nextId, assigned, touches>>

\* thinkingLogger.complete('completed') at the end of the handler
Complete(messageId) ==
  /\ inflight.pc[messageId] = "generating"
  /\ inflight' = [inflight EXCEPT
        !.store = completeThinking(@, messageId, "completed"),
        !.pc[messageId] = "done"]
  /\ last' = [op |-> "complete", messageId |-> messageId]
  /\ UNCHANGED <<files, present, now, nextId, assigned, touches>>

NextThinking ==
  \/ \E messageId \in MessageIds : Ask(messageId)
  \/ \E messageId \in MessageIds : ToolStep(messageId)
  \/ \E messageId \in MessageIds : Complete(messageId)

SpecThinking == InitThinking /\ [][NextThinking]_vars

\* ===================================================================
\* Properties
\* ===================================================================
loadAfter(userId) == loadFrom(files', present', userId)

AllDaysOld == DaysOldArgs \cup {DefaultDaysOld}

\* C1: every record handed to saveMemory is, right after the call, in the list
\* loadMemories returns for its userId, equal to what was handed in in every
\* field but id, timestamp and accessed, and with accessed = 0.
C1_AppendedRecordIsLoaded ==
  [][\A memory \in MemoryInputs :
       (last'.op = "append" /\ saveMemory(memory)) =>
         \E i \in 1..Len(loadAfter(memory.userId)) :
            LET r == loadAfter(memory.userId)[i] IN
            /\ r.id = last'.ret
            /\ r.accessed = 0
            /\ DOMAIN r = DOMAIN memory \cup {"id", "timestamp", "accessed"}
            /\ \A f \in DOMAIN memory : r[f] = memory[f]]_vars

C1_Witness ==
  /\ last.op = "append"
  /\ \E i \in 1..Len(loadMemories(<<"u1">>)) :
        LET r == loadMemories(<<"u1">>)[i] IN
        r.id = last.ret /\ r.accessed = 0 /\ r.expiresAt = {0} /\ r.type = "milestone"

\* C2: a call of updateMemoryAccess on a stored id raises that record's
\* accessed by exactly 1 and sets lastAccessed to the time of the call; a
\* stored record that was touched n times since it was appended has accessed = n.
C2_TouchAddsOne ==
  /\ [](\A u \in OpUserIds :
          LET memories == loadMemories(u)
          IN \A i \in 1..Len(memories) : memories[i].accessed = touches[memories[i].id])
  /\ [][\A u \in OpUserIds, id \in Ids :
          (last'.op = "touch" /\ updateMemoryAccess(u, id) /\ id \in idsOf(loadMemories(u))) =>
            LET before == loadMemories(u)
                after == loadAfter(u)
                i == findIndex(before, id)
            IN /\ after[i].id = id
               /\ after[i].accessed = before[i].accessed + 1
               /\ after[i].lastAccessed = {now}]_vars

C2_Witness ==
  /\ last.op = "touch"
  /\ \E u \in UserIds : \E i \in 1..Len(loadMemories(u)) :
        /\ loadMemories(u)[i].accessed = FrequentAccess
        /\ touches[loadMemories(u)[i].id] = FrequentAccess
        /\ loadMemories(u)[i].lastAccessed = {now}

\* C3: the stored accessed counter of a record that stays in its file never
\* goes down, whatever calls on the same userId interleave.
C3_AccessedNeverDecreases ==
  [][\A u \in OpUserIds :
       LET before == loadMemories(u)
           after == loadAfter(u)
       IN \A i \in 1..Len(before) : \A j \in 1..Len(after) :
             after[j].id = before[i].id => after[j].accessed >= before[i].accessed]_vars

\* C4: a stored record leaves its user's collection only in a step that is a
\* deleteMemory of its id or a cleanupOldMemories whose policy selects it.
stepDeletes(id) ==
  \/ last'.op = "delete" /\ \E u \in UserIds : deleteMemory(u, id)
  \/ inflight.pc = "loaded" /\ inflight.op = "delete" /\ inflight.arg = id /\ RaceFinish

stepCleansUp(m) ==
  \/ /\ last'.op = "cleanup"
     /\ \E u \in UserIds, d \in AllDaysOld :
          cleanupOldMemories(u, d) /\ ~keepOnCleanup(m, now - d)
  \/ /\ inflight.pc = "loaded" /\ inflight.op = "cleanup"
     /\ ~keepOnCleanup(m, now - inflight.arg)
     /\ RaceFinish

C4_RemovedOnlyByDeleteOrCleanup ==
  [][\A u \in OpUserIds :
       LET before == loadMemories(u)
           idsAfter == idsOf(loadAfter(u))
       IN \A i \in 1..Len(before) :
             before[i].id \notin idsAfter =>
               stepDeletes(before[i].id) \/ stepCleansUp(before[i])]_vars

\* C5: cleanupOldMemories leaves every milestone of the collection in it,
\* whatever its age, relevance and accessed count and whatever daysOld is.
C5_CleanupKeepsMilestones ==
  [][\A u \in OpUserIds, d \in AllDaysOld :
       (last'.op = "cleanup" /\ cleanupOldMemories(u, d)) =>
         \A i \in 1..Len(loadMemories(u)) :
            loadMemories(u)[i].type = "milestone" =>
              \E j \in 1..Len(loadAfter(u)) : loadAfter(u)[j] = loadMemories(u)[i]]_vars

C5_Witness ==
  /\ last.op = "cleanup" /\ last.userId = <<"u1">> /\ last.ret > 0
  /\ \E i \in 1..Len(loadMemories(<<"u1">>)) :
        LET m == loadMemories(<<"u1">>)[i] IN
        /\ m.type = "milestone"
        /\ m.relevance < HighRelevance
        /\ m.accessed < FrequentAccess
        /\ m.timestamp < now

\* C6 as the spec words it: the cleanup removes exactly the records that are
\* older than daysOld (timestamp < now - daysOld), below relevance 0.7, accessed
\* fewer than 3 times and no milestone; the rest stays as it was, in its order,
\* and the number of removed records is returned.
olderThan(m, t, daysOld) == m.timestamp < t - daysOld
notYoungerThan(m, t, daysOld) == m.timestamp <= t - daysOld

cleanupMatches(Aged(_, _, _)) ==
  \A u \in OpUserIds, d \in AllDaysOld :
     (last'.op = "cleanup" /\ cleanupOldMemories(u, d)) =>
       LET stays(m) == ~(/\ Aged(m, now, d)
                         /\ m.relevance < HighRelevance
                         /\ m.accessed < FrequentAccess
                         /\ m.type # "milestone")
       IN /\ loadAfter(u) = SelectSeq(loadMemories(u), stays)
          /\ last'.ret = Len(loadMemories(u)) - Len(loadAfter(u))

C6_CleanupRemovesOlderThan == [][cleanupMatches(olderThan)]_vars

\* C6 amended: as above, with "older than daysOld" read as "not younger than
\* daysOld" (timestamp <= now - daysOld).
C6_CleanupRemovesNotYounger == [][cleanupMatches(notYoungerThan)]_vars

C6_Witness ==
  /\ last.op = "cleanup" /\ last.userId = <<"u1">> /\ last.ret = 1
  /\ nextId = 3
  /\ Len(loadMemories(<<"u1">>)) = 1
  /\ loadMemories(<<"u2">>) = <<>> /\ getMemoryFilePath(<<"u2">>) \notin present

\* C7: no two records of one collection share an id, and saveMemory never
\* hands out an id that an earlier saveMemory handed out, deleted or not.
C7_IdsUniqueNeverReused ==
  /\ [](\A u \in OpUserIds :
          LET memories == loadMemories(u)
          IN \A i, j \in 1..Len(memories) : memories[i].id = memories[j].id => i = j)
  /\ [][\A memory \in MemoryInputs :
          (last'.op = "append" /\ saveMemory(memory)) => last'.ret \notin assigned]_vars

C7_Witness ==
  /\ last.op = "append"
  /\ Cardinality(assigned) = 2
  /\ storedIds(files, present) = {last.ret}

\* C8: a call for user A leaves the collection of every other user B as it
\* was, and loadMemories(B) holds only records whose userId is B.
callFor(A) ==
  \/ last'.op = "append" /\ \E memory \in MemoryInputs : memory.userId = A /\ saveMemory(memory)
  \/ last'.op = "touch" /\ \E id \in Ids : updateMemoryAccess(A, id)
  \/ last'.op = "expire" /\ \E id \in Ids : expireMemory(A, id)
  \/ last'.op = "delete" /\ \E id \in Ids : deleteMemory(A, id)
  \/ last'.op = "cleanup" /\ \E d \in AllDaysOld : cleanupOldMemories(A, d)

C8_UserScoped ==
  /\ [](\A B \in UserIds : \A i \in 1..Len(loadMemories(B)) : loadMemories(B)[i].userId = B)
  /\ [][\A A \in UserIds : \A B \in UserIds \ {A} :
          callFor(A) => loadAfter(B) = loadMemories(B)]_vars

\* C9: loadMemories returns the records in the order of their appends, oldest
\* first, and no call changes the relative order of the records it leaves.
appendOrder(memories) ==
  \A i, j \in 1..Len(memories) :
     i < j => /\ memories[i].id < memories[j].id
              /\ memories[i].timestamp <= memories[j].timestamp

positionOf(memories, id) == CHOOSE i \in 1..Len(memories) : memories[i].id = id

orderKept(before, after) ==
  \A a, b \in idsOf(before) \cap idsOf(after) :
     positionOf(before, a) < positionOf(before, b)
       => positionOf(after, a) < positionOf(after, b)

C9_AppendOrderKept ==
  /\ [](\A u \in OpUserIds : appendOrder(loadMemories(u)))
  /\ [][\A u \in OpUserIds : orderKept(loadMemories(u), loadAfter(u))]_vars

C9_Witness ==
  /\ last.op \in {"touch", "expire", "delete", "cleanup"}
  /\ Len(loadMemories(<<"u1">>)) = 2
  /\ loadMemories(<<"u1">>)[1].accessed > 0
  /\ loadMemories(<<"u1">>)[1].id < loadMemories(<<"u1">>)[2].id

\* C10 as the spec words it: under notExpired, search returns a record only
\* if its expired flag is false and its expiresAt is unset or in the future.
NotExpiredCriteria ==
  { c \in Criteria : /\ c.notExpired /\ c.userId # {}
                     /\ c.fromDate = {} /\ c.toDate = {} /\ c.tags = {} }

searchReturnsOnly(Valid(_, _)) ==
  \A c \in NotExpiredCriteria :
     LET found == searchMemories(c)
     IN \A i \in 1..Len(found) :
           ~found[i].expired /\ \A e \in found[i].expiresAt : Valid(e, now)

inTheFuture(e, t) == e > t
notInThePast(e, t) == e >= t

C10_NotExpiredOnlyFuture == searchReturnsOnly(inTheFuture)

\* C10 amended: under notExpired, search returns a record only if its expired
\* flag is false and its expiresAt is unset or not in the past (expiresAt >= now).
C10_NotExpiredNotPast == searchReturnsOnly(notInThePast)

C10_Witness ==
  /\ last.op = "search" /\ last.criteria.notExpired /\ last.criteria.limit = {}
  /\ Len(loadMemories(<<"u1">>)) = 2
  /\ Len(searchMemories(last.criteria)) = 1
  /\ \E i \in 1..2 : loadMemories(<<"u1">>)[i].expiresAt = {0} /\ now = 1
  /\ searchMemories(last.criteria)[1].expiresAt = {}

\* C11: for every criteria object with a userId, the list searchMemories
\* returns is in order of non-increasing relevance.
SearchCriteria == { c \in Criteria : c.userId # {} }

C11_SearchSortedByRelevance ==
  \A c \in SearchCriteria :
     LET found == searchMemories(c)
     IN \A i, j \in 1..Len(found) : i < j => found[i].relevance >= found[j].relevance

C11_Witness ==
  /\ last.op = "search" /\ ~last.threw
  /\ Len(last.ret) >= 2
  /\ \E i, j \in 1..Len(last.ret) :
        /\ i < j
        /\ last.ret[i].relevance > last.ret[j].relevance
        /\ last.ret[i].id > last.ret[j].id

\* C12: whenever the criteria carry a limit n >= 0 (0 included), searchMemories
\* returns at most n records: the first n of the filtered list in relevance
\* order, which is what the same criteria without the limit return.
firstOf(memories, n) == SubSeq(memories, 1, IF n < Len(memories) THEN n ELSE Len(memories))

C12_LimitTruncates ==
  \A c \in SearchCriteria : \A n \in c.limit :
     LET found == searchMemories(c)
         unlimited == searchMemories([c EXCEPT !.limit = {}])
     IN Len(found) <= n /\ found = firstOf(unlimited, n)

\* C13 as the spec words it: without a limit, searchMemories returns exactly
\* the records of the user's collection that meet every given predicate: type
\* in the given set, tag list intersecting the given tag list, fromDate <=
\* timestamp <= toDate, relevance >= minRelevance, and under notExpired the
\* flag unset and expiresAt unset or in the future.  An omitted predicate
\* filters nothing.
meets(c, m, t, emptyTagListFilters, Valid(_, _)) ==
  /\ \A types \in c.type : m.type \in types
  /\ \A tags \in c.tags :
        (emptyTagListFilters \/ tags # <<>>) =>
          \E i \in 1..Len(tags), j \in 1..Len(m.tags) : tags[i] = m.tags[j]
  /\ \A d \in c.fromDate : d <= m.timestamp
  /\ \A d \in c.toDate : m.timestamp <= d
  /\ \A r \in c.minRelevance : m.relevance >= r
  /\ c.notExpired => ~m.expired /\ \A e \in m.expiresAt : Valid(e, t)

searchReturnsExactly(emptyTagListFilters, Valid(_, _)) ==
  \A c \in SearchCriteria :
     c.limit = {} =>
       LET all == UNION { seqToSet(loadMemories(u)) : u \in c.userId }
           found == searchMemories(c)
       IN /\ seqToSet(found) = { m \in all : meets(c, m, now, emptyTagListFilters, Valid) }
          /\ \A i, j \in 1..Len(found) : found[i] = found[j] => i = j

C13_SearchReturnsMatching == searchReturnsExactly(TRUE, inTheFuture)

\* C13 amended: as above, where a tag list given empty filters nothing, like
\* an omitted one, and under notExpired expiresAt is unset or not in the past
\* (expiresAt >= now).
C13_SearchReturnsMatchingLenient == searchReturnsExactly(FALSE, notInThePast)

C13_Witness ==
  /\ last.op = "search" /\ ~last.threw
  /\ last.criteria.limit = {}
  /\ last.criteria.tags = {<<"high", "x">>}
  /\ Len(last.ret) = 1
  /\ Len(loadMemories(<<"u1">>)) = 3

\* C14: searchMemories called with criteria that lack userId throws, opens no
\* file and leaves every file as it was.
C14_SearchWithoutUserIdFails ==
  [][\A c \in Criteria :
       (c.userId = {} /\ Search(c)) =>
         /\ last'.threw
         /\ last'.read = {}
         /\ files' = files /\ present' = present]_vars

C14_Witness ==
  /\ last.op = "search" /\ last.criteria.userId = {}
  /\ last.threw
  /\ Len(loadMemories(<<"u1">>)) = MaxStored

\* C15: deleteMemory(userId, id) returns true exactly when id is in the user's
\* collection; then loadMemories(userId) afterwards is the collection before
\* without that one record (the empty list, and no file, when it was the only
\* one); when id is absent it returns false and the file stays as it was.
without(memories, id) == LET other(m) == m.id # id IN SelectSeq(memories, other)

C15_DeleteRemovesOne ==
  [][\A u \in OpUserIds, id \in Ids :
       (last'.op = "delete" /\ deleteMemory(u, id)) =>
         LET before == loadMemories(u)
             after == loadAfter(u)
         IN /\ last'.ret = (id \in idsOf(before))
            /\ id \in idsOf(before) =>
                 /\ after = without(before, id)
                 /\ Len(after) = Len(before) - 1
                 /\ after = <<>> => getMemoryFilePath(u) \notin present'
            /\ id \notin idsOf(before) =>
                 /\ after = before
                 /\ files' = files /\ present' = present]_vars

C15_Witness ==
  /\ last.op = "delete" /\ last.ret
  /\ loadMemories(<<"u1">>) = <<>>
  /\ getMemoryFilePath(<<"u1">>) \notin present

\* C16: updateMemoryAccess and expireMemory called with an id that is not in
\* the user's collection complete and leave every file as it was.
C16_UnknownIdIsNoOp ==
  [][\A u \in OpUserIds, id \in Ids :
       (/\ id \notin idsOf(loadMemories(u))
        /\ \/ last'.op = "touch" /\ updateMemoryAccess(u, id)
           \/ last'.op = "expire" /\ expireMemory(u, id)) =>
         files' = files /\ present' = present]_vars

\* a malformed line is still in the file: no call has rewritten it
C16_Witness ==
  /\ last.op \in {"touch", "expire"}
  /\ \E i \in 1..Len(files[getMemoryFilePath(<<"u1">>)]) :
        files[getMemoryFilePath(<<"u1">>)][i] = Garbage
  /\ Len(loadMemories(<<"u1">>)) = 1

\* C17: loadMemories on a file with malformed lines returns the records of
\* the lines that are record texts, one for each such line and in file order,
\* and nothing for the other lines.
wellFormed(line) == line \notin {Blank, Garbage, JsonNull}

wellFormedAt(lines) == { i \in 1..Len(lines) : wellFormed(lines[i]) }

recordsOfLines(lines, loaded) ==
  /\ Len(loaded) = Cardinality(wellFormedAt(lines))
  /\ \E at \in [1..Len(loaded) -> wellFormedAt(lines)] :
        /\ \A i, j \in 1..Len(loaded) : i < j => at[i] < at[j]
        /\ \A i \in 1..Len(loaded) : stringify(loaded[i]) = lines[at[i]]

C17_LoadSkipsMalformedLines ==
  (last.op = "load" /\ getMemoryFilePath(last.userId) \in present) =>
     recordsOfLines(files[getMemoryFilePath(last.userId)], last.ret)

C17_Witness ==
  /\ last.op = "load" /\ last.userId = <<"u1">>
  /\ Len(last.ret) = 2
  /\ LET lines == files[getMemoryFilePath(<<"u1">>)]
     IN /\ Len(lines) = 3
        /\ lines[2] \in {Garbage, JsonNull}

cascade(text) ==
  << <<"learning_progress",
       containsPattern(text, learningProgressKeywords) /\ detectSubject(text) # {}>>,
     <<"learning_challenge",
       containsPattern(text, learningChallengeKeywords) /\ detectCategory(text) # {}>>,
     <<"commitment", containsPattern(text, commitmentKeywords)>>,
     <<"emotional_state", detectEmotion(text) # {}>>,
     <<"milestone", containsPattern(text, milestoneKeywords) /\ containsDate(text)>> >>

C19_FirstMatchingCategory ==
  last.op = "keywords" =>
    LET c == cascade(last.message)
        holds == { i \in 1..Len(c) : c[i][2] }
    IN /\ \A i \in holds :
            (\A j \in holds : i <= j) =>
               last.decision.shouldSave = {TRUE} /\ last.decision.type = {c[i][1]}
       /\ holds = {} =>
            last.decision.shouldSave = {FALSE} /\ last.decision.confidence = {0}

C19_Witness ==
  /\ last.op = "keywords"
  /\ last.decision.type = {"learning_challenge"}
  /\ containsPattern(last.message, commitmentKeywords)
  /\ detectEmotion(last.message) # {}

\* C20: when the LLM's decision has shouldSave = false and a keyword hint
\* fired, analyzeSaveDecisionWithLLM returns shouldSave = true with confidence
\* min(llmConfidence * 0.6, 0.6), which is never above 0.6.
C20_KeywordOverridesNoSave ==
  (/\ last.op = "hybrid"
   /\ last.reply \in LLMDecisions
   /\ last.reply.shouldSave = {FALSE}
   /\ someHint(last.message)) =>
     /\ last.decision.shouldSave = {TRUE}
     /\ \A c \in last.reply.confidence :
           \A d \in {(c * 6) \div 10} :
              last.decision.confidence = { IF d < 600 THEN d ELSE 600 }
     /\ \A d \in last.decision.confidence : d <= 600

C20_Witness ==
  /\ last.op = "hybrid"
  /\ last.reply \in LLMDecisions
  /\ last.reply.shouldSave = {FALSE}
  /\ last.reply.confidence = {1500}
  /\ someHint(last.message)
  /\ last.decision.confidence = {600}

\* C21: when the LLM's decision has shouldSave = true and no keyword hint
\* fired, analyzeSaveDecisionWithLLM returns shouldSave = true with confidence
\* min(llmConfidence * 1.1, 1.0); when the LLM says save and a hint fired, or
\* says not to save and no hint fired, it returns the LLM's shouldSave and
\* confidence unchanged.
C21_ContextualJudgmentBoosted ==
  (last.op = "hybrid" /\ last.reply \in LLMDecisions) =>
     LET save == last.reply.shouldSave = {TRUE}
         hint == someHint(last.message)
     IN /\ (save /\ ~hint) =>
             /\ last.decision.shouldSave = {TRUE}
             /\ \A c \in last.reply.confidence :
                   \A d \in {(c * 11) \div 10} :
                      last.decision.confidence = { IF d < 1000 THEN d ELSE 1000 }
        /\ (save = hint) =>
             /\ last.decision.shouldSave = last.reply.shouldSave
             /\ last.decision.confidence = last.reply.confidence

C21_Witness ==
  /\ last.op = "hybrid"
  /\ last.reply \in LLMDecisions
  /\ last.reply.shouldSave = {TRUE}
  /\ last.reply.confidence = {1000}
  /\ ~someHint(last.message)
  /\ last.decision.confidence = {1000}

\* C22: when the call of the LLM throws, analyzeSaveDecisionWithLLM returns
\* the decision analyzeSaveDecision returns on the same message: the same
\* shouldSave, type, confidence and suggestedTags.
sameDecision(d, e) ==
  /\ d.shouldSave = e.shouldSave
  /\ d.type = e.type
  /\ d.confidence = e.confidence
  /\ d.suggestedTags = e.suggestedTags

C22_ErrorFallsBackToKeywords ==
  (last.op = "hybrid" /\ last.reply = LLMError) =>
     sameDecision(last.decision, analyzeSaveDecision(last.message))

C22_Witness ==
  /\ last.op = "hybrid"
  /\ last.reply = LLMError
  /\ last.decision.shouldSave = {TRUE}
  /\ last.decision.type = {"commitment"}

\* C23: when the LLM's answer is malformed, a text that is no JSON or a JSON
\* value that lacks the fields asked for, analyzeSaveDecisionWithLLM returns
\* the decision analyzeSaveDecision returns on the same message.
C23_MalformedFallsBackToKeywords ==
  (last.op = "hybrid" /\ last.reply \in {NotJson, EmptyObject}) =>
     sameDecision(last.decision, analyzeSaveDecision(last.message))

\* C24: every call of analyzeSaveDecisionWithLLM eventually returns a
\* decision to its caller, also when the LLM never answers.
C24_HybridCallReturns == (inflight.pc = "awaiting") ~> (inflight = Idle)

\* ---------------------------------------------- retrieval: C25 .. C30
returnedIds == { last.ret.memories[i].id : i \in 1..Len(last.ret.memories) }

storedOfUser == loadMemories(<<"u1">>)

\* C25: analyzeRetrievalDecision returns at most 3 memories, and no id occurs
\* twice in the returned list.
C25_AtMostThreeDistinct ==
  last.op = "decide" =>
     /\ Len(last.ret.memories) <= 3
     /\ \A i, j \in 1..Len(last.ret.memories) :
           i # j => last.ret.memories[i].id # last.ret.memories[j].id

C25_Witness ==
  /\ last.op = "decide"
  /\ Cardinality(DOMAIN last.ret.relevanceScores) = 4
  /\ Len(last.ret.memories) = 3

\* C26: the returned memories are the up-to-3 highest-scored candidates of
\* all passes, in non-increasing order of their score in the returned map:
\* no candidate left out has a strictly higher score than a returned one.
C26_TopScoredInOrder ==
  last.op = "decide" =>
     LET memories == last.ret.memories
         scores == last.ret.relevanceScores
         candidates == DOMAIN scores
     IN /\ returnedIds \subseteq candidates
        /\ Len(memories) = IF Cardinality(candidates) < 3 THEN Cardinality(candidates) ELSE 3
        /\ \A i, j \in 1..Len(memories) :
              i < j => scores[memories[i].id] >= scores[memories[j].id]
        /\ \A id \in candidates \ returnedIds :
              \A r \in returnedIds : scores[id] <= scores[r]

C26_Witness ==
  /\ last.op = "decide"
  /\ Len(last.ret.memories) = 3
  /\ last.ret.relevanceScores[last.ret.memories[1].id] = 10
  /\ last.ret.relevanceScores[last.ret.memories[2].id] = 9
  /\ last.ret.relevanceScores[last.ret.memories[3].id] = 8
  /\ \E id \in DOMAIN last.ret.relevanceScores : last.ret.relevanceScores[id] = 7

\* C27: a commitment of the user that is due tomorrow, not completed and not
\* expired is among the returned memories with score 0.9, for any message and
\* whatever else is stored.
dueTomorrow(m) ==
  /\ m.type = "commitment"
  /\ newDate(m.content.deadline) = now + DayTicks
  /\ ~m.content.completed
  /\ notExpiredAt(m, now)

isReturnedWith(m, score) ==
  /\ m.id \in returnedIds
  /\ m.id \in DOMAIN last.ret.relevanceScores
  /\ last.ret.relevanceScores[m.id] = score

C27_DueCommitmentReturned ==
  last.op = "decide" =>
     \A i \in 1..Len(storedOfUser) :
        dueTomorrow(storedOfUser[i]) => isReturnedWith(storedOfUser[i], 9)

\* C27 as it holds: the same for a user whose only commitment is the one due
\* tomorrow and who has fewer than three milestones of importance critical.
countOf(memories, P(_)) == Cardinality({ i \in 1..Len(memories) : P(memories[i]) })

isCommitment(m) == m.type = "commitment"

isCriticalMilestone(m) == m.type = "milestone" /\ m.content.importance = "critical"

C27_OnlyCommitmentReturned ==
  (/\ last.op = "decide"
   /\ countOf(storedOfUser, isCommitment) = 1
   /\ countOf(storedOfUser, isCriticalMilestone) < 3) =>
     \A i \in 1..Len(storedOfUser) :
        dueTomorrow(storedOfUser[i]) => isReturnedWith(storedOfUser[i], 9)

C27_Witness ==
  /\ last.op = "decide"
  /\ countOf(storedOfUser, isCommitment) = 1
  /\ countOf(storedOfUser, isCriticalMilestone) = 2
  /\ Len(storedOfUser) = 4
  /\ \E i \in 1..Len(storedOfUser) :
        dueTomorrow(storedOfUser[i]) /\ last.ret.memories[3] = storedOfUser[i]

\* C28: when no pass matches, the returned memories are the (up to) 3 most
\* recently stored records of the user that are not expired, of whatever
\* type, each with score 0.3.
noPassMatches ==
  /\ commitmentPass(files, present, now, <<"u1">>) = <<>>
  /\ challengePass(files, present, now, last.message, <<"u1">>) = <<>>
  /\ emotionPass(files, present, now, last.message, <<"u1">>) = <<>>
  /\ milestonePass(files, present, now, <<"u1">>) = <<>>

notExpiredNow(m) == notExpiredAt(m, now)

lastOf(memories, n) ==
  SubSeq(memories, IF Len(memories) > n THEN Len(memories) - n + 1 ELSE 1, Len(memories))

C28_FallbackMostRecent ==
  (last.op = "decide" /\ noPassMatches) =>
     /\ returnedIds = idsOf(lastOf(SelectSeq(storedOfUser, notExpiredNow), 3))
     /\ \A id \in returnedIds : last.ret.relevanceScores[id] = 3

\* C29: if the user has any stored memory, the returned list is not empty.
C29_SomeMemoryReturned ==
  (last.op = "decide" /\ Len(storedOfUser) > 0) => Len(last.ret.memories) > 0

\* C29 as it holds: if the user has any stored memory that is not expired,
\* the returned list is not empty.
C29_SomeLiveMemoryReturned ==
  (last.op = "decide" /\ \E i \in 1..Len(storedOfUser) : notExpiredNow(storedOfUser[i])) =>
     Len(last.ret.memories) > 0

C29_Witness ==
  /\ last.op = "decide"
  /\ noPassMatches
  /\ \E i \in 1..Len(storedOfUser) : ~notExpiredNow(storedOfUser[i])
  /\ Len(last.ret.memories) = 1

\* C30: an emotional_state record of the last 7 days is a candidate with
\* score 0.7 when its emotion is the one detected in the message, anxious and
\* stressed counting as the same emotion in both directions.
equivalentEmotions(a, b) == a = b \/ {a, b} = {"anxious", "stressed"}

C30_EmotionalContinuity ==
  last.op = "decide" =>
     \A i \in 1..Len(storedOfUser) :
        LET m == storedOfUser[i] IN
        (/\ m.type = "emotional_state"
         /\ m.timestamp >= now - 7 * DayTicks
         /\ \E e \in detectEmotion(last.message) : equivalentEmotions(m.content.emotion, e)) =>
           /\ m.id \in DOMAIN last.ret.relevanceScores
           /\ last.ret.relevanceScores[m.id] = 7

\* ---------------------------------------------- retrieval: C31, C32, C37
isCandidateWith(m, score) ==
  m.id \in DOMAIN last.ret.relevanceScores /\ last.ret.relevanceScores[m.id] = score

\* C31: a commitment is a candidate with score 0.9 if and only if it is not
\* expired, not completed, and its deadline is within [-1, +3] days of now
\* (days counted as the code counts them, a started day as a whole one);
\* this holds for every such commitment, however many commitments are stored.
deadlineInWindow(m) ==
  LET days == daysUntil(newDate(m.content.deadline), now)
  IN days >= -1 /\ days <= 3

C31_DueCommitmentsAreCandidates ==
  last.op = "decide" =>
     \A i \in 1..Len(storedOfUser) :
        LET m == storedOfUser[i] IN
        m.type = "commitment" =>
           (isCandidateWith(m, 9) <=>
              (notExpiredNow(m) /\ ~m.content.completed /\ deadlineInWindow(m)))

\* C32: a milestone is a candidate if and only if it is not expired and its
\* eventDate is within [0, 14] days of now (an eventDate in the past is never
\* selected), and its score is 1.0 for importance critical, 0.9 for high and
\* 0.8 otherwise.
eventInWindow(m) ==
  /\ newDate(m.content.eventDate) >= now
  /\ newDate(m.content.eventDate) <= now + 14 * DayTicks

scoreByImportance(m) ==
  CASE m.content.importance = "critical" -> 10
    [] m.content.importance = "high" -> 9
    [] OTHER -> 8

C32_NearMilestonesAreCandidates ==
  last.op = "decide" =>
     \A i \in 1..Len(storedOfUser) :
        LET m == storedOfUser[i] IN
        m.type = "milestone" =>
           /\ (\E score \in {8, 9, 10} : isCandidateWith(m, score)) <=>
                 (notExpiredNow(m) /\ eventInWindow(m))
           /\ (notExpiredNow(m) /\ eventInWindow(m)) =>
                 isCandidateWith(m, scoreByImportance(m))

\* ------------------------------------------ the store again: C33, C34
\* C33: when a second updateMemoryAccess on the same record runs between the
\* load and the rewrite of a first one, the first one's rewrite stores the
\* count it loaded plus one, whatever the file held by then: of two such
\* calls the record's accessed can show only one.
C33_LastWriterWins ==
  [][(inflight.pc = "loaded" /\ inflight.op = "touch" /\ inflight' = Idle) =>
       LET memoryIndex == findIndex(inflight.memories, inflight.arg)
           after == loadAfter(inflight.userId)
       IN memoryIndex # -1 =>
            \A j \in 1..Len(after) :
               after[j].id = inflight.arg =>
                  after[j].accessed = inflight.memories[memoryIndex].accessed + 1]_vars

C33_Witness ==
  /\ inflight = Idle
  /\ last.op = "touch"
  /\ nextId = 2
  /\ \E i \in 1..Len(storedOfUser) :
        /\ touches[storedOfUser[i].id] = 2
        /\ storedOfUser[i].accessed = 1
        /\ ~storedOfUser[i].expired

\* C34: updateMemoryAccess changes only accessed and lastAccessed of the
\* record it is called for, and expireMemory only its expired flag: every
\* other field of that record, and every field of every other record, is the
\* same before and after the call.
onlyChanged(memoryId, fields) ==
  \A u \in UserIds :
     LET before == loadMemories(u)
         after == loadAfter(u)
     IN /\ Len(after) = Len(before)
        /\ \A i \in 1..Len(before) :
              /\ DOMAIN after[i] = DOMAIN before[i]
              /\ \A f \in DOMAIN before[i] :
                    (before[i].id # memoryId \/ f \notin fields) => after[i][f] = before[i][f]

C34_TouchAndExpireFrame ==
  [][\A userId \in OpUserIds, memoryId \in Ids :
       /\ (last'.op = "touch" /\ updateMemoryAccess(userId, memoryId)) =>
             onlyChanged(memoryId, {"accessed", "lastAccessed"})
       /\ (last'.op = "expire" /\ expireMemory(userId, memoryId)) =>
             onlyChanged(memoryId, {"expired"})]_vars

C34_Witness ==
  /\ last.op = "expire"
  /\ Len(storedOfUser) = 2
  /\ storedOfUser[2].expired /\ storedOfUser[2].expiresAt # {}
  /\ storedOfUser[1].accessed = 1 /\ ~storedOfUser[1].expired

\* ------------------------------------------- save decisions: C35, C36
\* C35: some keyword hint of analyzeSaveDecisionWithLLM fires if and only if
\* analyzeSaveDecision returns shouldSave = true on the same message.
keywordsSave(text) == analyzeSaveDecision(text).shouldSave = {TRUE}

C35_HintsAreTheCascade ==
  last.op = "hybrid" => (someHint(last.message) <=> keywordsSave(last.message))

\* C35 as it holds: some keyword hint fires whenever analyzeSaveDecision
\* returns shouldSave = true on the same message.
C35_CascadeImpliesHint ==
  last.op = "hybrid" => (keywordsSave(last.message) => someHint(last.message))

C35_Witness ==
  /\ last.op = "hybrid"
  /\ analyzeSaveDecision(last.message).type = {"commitment"}
  /\ hints(last.message).commitment
  /\ ~hints(last.message).learningProgress
  /\ ~hints(last.message).learningChallenge
  /\ hints(last.message).emotionalState = {}
  /\ ~hints(last.message).milestone

\* C36: every decision with shouldSave = true that analyzeSaveDecision or
\* analyzeSaveDecisionWithLLM returns carries a type of MemoryType.
C36_SavedDecisionHasType ==
  (last.op \in {"keywords", "hybrid"} /\ truthy(last.decision.shouldSave)) =>
     \E type \in last.decision.type : type \in MemoryType

\* C37: every memory that analyzeRetrievalDecision returns is not expired at
\* the time of the call (its flag is off and its expiresAt is unset or not
\* passed), whichever pass or the fallback took it.
C37_ReturnedNotExpired ==
  last.op = "decide" =>
     \A i \in 1..Len(last.ret.memories) : notExpiredNow(last.ret.memories[i])

\* C38: the total that getMemoryStats reports for a user is the number it
\* reports as expired plus the number of records a search of that user with
\* notExpired and no limit returns, and its counts by type add up to the
\* total.
RECURSIVE sumOver(_, _)
sumOver(f, S) ==
  IF S = {} THEN 0
  ELSE LET x == CHOOSE y \in S : TRUE IN f[x] + sumOver(f, S \ {x})

liveOf(userId) == searchMemories([NoCriteria({userId}) EXCEPT !.notExpired = TRUE])

C38_StatsPartition ==
  last.op = "stats" =>
     /\ last.ret.total = last.ret.expired + Len(liveOf(last.userId))
     /\ sumOver(last.ret.byType, DOMAIN last.ret.byType) = last.ret.total

\* three records of two types: one expired by its flag, one by a deadline
\* that has passed, one live
C38_Witness ==
  /\ last.op = "stats"
  /\ last.ret.total = 3
  /\ last.ret.expired = 2
  /\ Cardinality(DOMAIN last.ret.byType) = 2
  /\ \E i \in 1..3 : LET m == loadMemories(last.userId)[i]
                     IN ~m.expired /\ \E e \in m.expiresAt : e < now
  /\ \E i \in 1..3 : loadMemories(last.userId)[i].expired

\* C39: a call of updateMemoryAccess, expireMemory, deleteMemory or
\* cleanupOldMemories that rewrites the user's file leaves no line in it that
\* failed to parse, and a call that finds no such id, or nothing to remove,
\* leaves the file as it was, lines that fail to parse included.
rewritten(userId) ==
  LET lines == files'[getMemoryFilePath(userId)]
  IN \A i \in 1..Len(lines) : ~isMalformed(lines[i])

untouched == files' = files /\ present' = present

isFound(userId, memoryId) == findIndex(loadMemories(userId), memoryId) # -1

removesSome(userId, daysOld) ==
  Len(memoriesToKeep(loadMemories(userId), now - daysOld)) < Len(loadMemories(userId))

C39_RewriteDropsMalformed ==
  [][/\ \A userId \in OpUserIds, memoryId \in Ids :
          (\/ last'.op = "touch" /\ updateMemoryAccess(userId, memoryId)
           \/ last'.op = "expire" /\ expireMemory(userId, memoryId)
           \/ last'.op = "delete" /\ deleteMemory(userId, memoryId)) =>
             IF isFound(userId, memoryId) THEN rewritten(userId) ELSE untouched
     /\ \A userId \in OpUserIds, daysOld \in DaysOldArgs \cup {DefaultDaysOld} :
          (last'.op = "cleanup" /\ cleanupOldMemories(userId, daysOld)) =>
             IF removesSome(userId, daysOld) THEN rewritten(userId) ELSE untouched]_vars

\* a delete that found its record in a file with a line that does not parse,
\* and left the other record alone in the file
C39_Witness ==
  /\ last.op = "delete" /\ last.ret /\ last.skipped > 0
  /\ Len(files[getMemoryFilePath(<<"u1">>)]) = 1
  /\ Len(storedOfUser) = 1

\* C40: the steps that the tools of a request report through addCurrentStep
\* are all in the log that request opened with startThinking, and in no
\* other log, also when a second request has called startThinking before the
\* first one called completeThinking.
toolStepsOf(messageId, by) ==
  LET log == inflight.store.logs[messageId]
      isToolStepBy(s) == s.by = by /\ s.step = "tool"
  IN IF log = NoLog THEN 0 ELSE Len(SelectSeq(log.steps, isToolStepBy))

C40_StepsGoToOwnLog ==
  \A a \in MessageIds :
     /\ toolStepsOf(a, a) = inflight.produced[a]
     /\ \A b \in MessageIds \ {a} : toolStepsOf(b, a) = 0

====
